---- MODULE Spec2Model ----
(***************************************************************************)
(* NebulaGraph-Desktop: the service supervisor (DockerService) and the     *)
(* health resolvers, as state machines over the container runtime.         *)
(*                                                                         *)
(* Two revisions of DockerService are in the repository:                   *)
(*   "p8" : src/unnamed/part_008 (servicesStarting flag, 20-poll loop)     *)
(*   "ds" : src/electron/main/services/docker-service.ts                   *)
(*          (per-service waitForHealthCheck, 60 attempts each)             *)
(* "mock" is DockerMockService of docker-mock.ts, which stands in for      *)
(* them in development.                                                    *)
(* A process runs one of them; the variable rev says which.                *)
(*                                                                         *)
(* Every await of the code is a step boundary: an action is the code that  *)
(* runs between two awaits.  A status evaluation reads the four containers *)
(* at one instant (the read) and assigns the cache at a later instant (the *)
(* commit), as the code's Promise.all continuation does.  The two          *)
(* time-stamped caches are checked against the time that has passed since  *)
(* they were written, an input of the check.                               *)
(***************************************************************************)
EXTENDS Integers, Sequences, FiniteSets, TLC

VARIABLES
    rev,                \* revision of DockerService the process runs
    docker,             \* the engine: "absent" | "stopped" | "nocompose" | "ok"
    platform,           \* process.platform: "darwin" | "linux"
    template,           \* the compose template ships with the install
    cont,               \* container runtime: service -> container state
    envLeft,            \* remaining spontaneous container changes
    imagesPresent,      \* the required images are present locally
    servicesStarting,   \* DockerService.servicesStarting
    lastServiceStatus,  \* DockerService.lastServiceStatus
    imageCheckCache,    \* DockerService.imageCheckCache
    composeFile,        \* the persisted compose file: "absent" | "valid"
    composeFileCache,   \* DockerService.composeFileCache
    call,               \* the startServices() invocations, one per IPC caller
    query,              \* the renderer's getServicesStatus() invocation
    probe,              \* inputs of one health resolution
    verdict,            \* what each health resolver returned for probe
    ops,                \* the other DockerService operations that returned
    imageLoadingProgress, \* DockerService.imageLoadingProgress
    loaders,            \* the ensureImagesLoaded() invocations in steps
    mock                \* DockerMockService: its fields and its calls in flight

vars == << rev, docker, platform, template, cont, envLeft, imagesPresent,
           servicesStarting, lastServiceStatus, imageCheckCache, composeFile,
           composeFileCache, call, query, probe, verdict, ops,
           imageLoadingProgress, loaders, mock >>

envVars == << rev, docker, platform, template >>

----------------------------------------------------------------------------
(* Bounds of the model *)

\* spontaneous container changes (health-check results, exits) in one run
MaxEnvSteps == 1

\* operations other than startServices and getServicesStatus in one run
MaxOps == 2

(* Program constants *)

maxRetries == 20
maxAttempts == 60
CACHE_DURATION == 3600000
COMPOSE_CACHE_DURATION == 60000
total == 4

----------------------------------------------------------------------------
(* The service table *)

serviceConfigs == << "metad", "storaged", "graphd", "studio" >>

Services == { serviceConfigs[i] : i \in 1..Len(serviceConfigs) }

\* names a resolver can be asked about: the table plus the activator helper
ResolverNames == Services \cup { "storage-activator" }

getHealthCheckPort(serviceName) ==
    CASE serviceName = "metad"    -> 11000
      [] serviceName = "storaged" -> 12000
      [] serviceName = "graphd"   -> 13000
      [] serviceName = "studio"   -> 7001
      [] OTHER                    -> 0

----------------------------------------------------------------------------
(* The container runtime as the commands show it *)

CStates == { "absent", "exited", "starting", "healthy", "unhealthy", "nohealth" }

IsUp(cs) == cs \in { "starting", "healthy", "unhealthy", "nohealth" }

FAIL == "<command failed>"

\* docker ps --filter name=... --format {{.Status}}
PsStatusOf(cs) ==
    CASE cs = "healthy"   -> "Up 2 minutes (healthy)"
      [] cs = "unhealthy" -> "Up 2 minutes (unhealthy)"
      [] cs = "starting"  -> "Up 2 seconds (health: starting)"
      [] cs = "nohealth"  -> "Up 2 minutes"
      [] OTHER            -> ""

\* String.prototype.toLowerCase on the outputs of the model
ToLower(s) ==
    CASE s = "Up 2 minutes (healthy)"          -> "up 2 minutes (healthy)"
      [] s = "Up 2 minutes (unhealthy)"        -> "up 2 minutes (unhealthy)"
      [] s = "Up 2 seconds (health: starting)" -> "up 2 seconds (health: starting)"
      [] s = "Up 2 minutes"                    -> "up 2 minutes"
      [] OTHER                                 -> s

\* String.prototype.includes on the outputs of the model
Includes(s, needle) ==
    needle \in
      CASE s = "Up 2 minutes (healthy)"          -> { "Up", "(healthy)", "healthy" }
        [] s = "Up 2 minutes (unhealthy)"        -> { "Up", "(unhealthy)", "healthy" }
        [] s = "Up 2 seconds (health: starting)" -> { "Up", "starting" }
        [] s = "Up 2 minutes"                    -> { "Up" }
        [] s = "up 2 minutes (healthy)"          -> { "up", "(healthy)", "healthy" }
        [] s = "up 2 minutes (unhealthy)"        -> { "up", "(unhealthy)", "healthy" }
        [] s = "up 2 seconds (health: starting)" -> { "up", "starting" }
        [] s = "up 2 minutes"                    -> { "up" }
        [] s = "{\"status\":\"ok\"}"             -> { "ok" }
        [] s = "healthy"                         -> { "healthy" }
        [] s = "<html>502</html>"                -> { }
        [] OTHER                                 -> { }

\* docker inspect NAME || echo "not-found" : stdout as exec returns it
NotFoundOut == "[]\nnot-found\n"

\* String.prototype.trim on the outputs of the model
Trim(s) == IF s = NotFoundOut THEN "[]\nnot-found" ELSE s

JsonRunning == "[{State:{Running:true}}]"
JsonStopped == "[{State:{Running:false}}]"

InspectOf(cs) ==
    IF cs = "absent" THEN NotFoundOut
    ELSE IF IsUp(cs) THEN JsonRunning ELSE JsonStopped

\* JSON.parse(out)[0]?.State?.Running === true ; "throws" when out is no JSON
ParseRunning(out) ==
    CASE out = JsonRunning -> "true"
      [] out = JsonStopped -> "false"
      [] OTHER             -> "throws"

\* docker inspect --format '{{.State.Health.Status}}' NAME || echo "none"
HealthFormatOf(cs) ==
    CASE cs = "healthy"   -> "healthy"
      [] cs = "unhealthy" -> "unhealthy"
      [] cs = "starting"  -> "starting"
      [] OTHER            -> "none"

\* docker inspect --format '{{if .State}}{{.State.Status}}{{end}}' NAME
StateFormatOf(cs) ==
    CASE cs = "absent" -> FAIL
      [] cs = "exited" -> "exited"
      [] OTHER         -> "running"

\* docker inspect --format '{{if .State.Health}}{{.State.Health.Status}}{{end}}' NAME
HealthIfFormatOf(cs) ==
    CASE cs = "healthy"   -> "healthy"
      [] cs = "unhealthy" -> "unhealthy"
      [] cs = "starting"  -> "starting"
      [] cs = "absent"    -> FAIL
      [] OTHER            -> ""

\* bodies the HTTP /status probe can answer with; FAIL is curl -f failing
HttpOuts == { "{\"status\":\"ok\"}", "healthy", "<html>502</html>", FAIL }

----------------------------------------------------------------------------
(* The health resolvers *)

\* part_008: docker ps status first, HTTP probe when up without native status
getServiceHealthP8(serviceName, psOut, httpOut) ==
    IF psOut = FAIL THEN "unknown"
    ELSE LET status == ToLower(psOut) IN
      IF Includes(status, "(healthy)") THEN "healthy"
      ELSE IF Includes(status, "(unhealthy)") THEN "unhealthy"
      ELSE IF Includes(status, "starting") THEN "starting"
      ELSE IF Includes(status, "up") THEN
        IF getHealthCheckPort(serviceName) = 0 THEN "unknown"
        ELSE IF httpOut = FAIL THEN "starting"
        ELSE IF Includes(httpOut, "ok") \/ Includes(httpOut, "healthy") THEN "healthy"
        ELSE "unhealthy"
      ELSE "unknown"

\* docker-service.ts: inspect, then the native health status
getServiceHealthDSDemoting(serviceName, inspectOut, healthOut) ==
    IF inspectOut = FAIL THEN "unknown"
    ELSE IF inspectOut = "not-found" \/ Includes(inspectOut, "Error: No such object")
      THEN "unknown"
    ELSE IF ParseRunning(inspectOut) # "true" THEN "unknown"
    ELSE IF healthOut = FAIL THEN "unknown"
    ELSE IF ToLower(healthOut) = "healthy" THEN "healthy" ELSE "unhealthy"
getServiceHealthDS(serviceName, inspectOut, healthOut) ==
    IF inspectOut = FAIL THEN "unknown"
    ELSE IF inspectOut = "not-found" \/ Includes(inspectOut, "Error: No such object")
      THEN "unknown"
    ELSE IF ParseRunning(inspectOut) # "true" THEN "unknown"
    ELSE IF healthOut = FAIL THEN "unknown"
    ELSE LET status == ToLower(healthOut) IN
      CASE status = "healthy"   -> "healthy"
        [] status = "unhealthy" -> "unhealthy"
        [] status = "starting"  -> "starting"
        [] OTHER -> IF serviceName = "storage-activator" THEN "healthy" ELSE "starting"

\* docker-checker.ts: state, then native health; docker ps when inspection throws
getServiceHealthChecker(serviceName, stateOut, healthOut, psOut) ==
    IF stateOut # FAIL /\ ToLower(stateOut) # "running" THEN "unknown"
    ELSE IF stateOut # FAIL /\ healthOut # FAIL THEN
      LET status == ToLower(healthOut) IN
        CASE status = "healthy"   -> "healthy"
          [] status = "unhealthy" -> "unhealthy"
          [] status = "starting"  -> "starting"
          [] OTHER                -> "starting"
    ELSE IF psOut # FAIL /\ Includes(psOut, "Up") THEN "starting"
    ELSE "unknown"

----------------------------------------------------------------------------
(* Status snapshots *)

\* the empty Record<string, ServiceStatus>
NoSnapshot == << >>

Keys(snap) == DOMAIN snap

EntryWithMetrics(status, health, failureCount, metrics) ==
    [ status |-> status, health |-> health,
      failureCount |-> failureCount, metrics |-> "sample" ]
Entry(status, health, failureCount, metrics) ==
    [ status |-> status, health |-> health,
      failureCount |-> failureCount, metrics |-> metrics ]

\* what the HTTP /status endpoint of a container answers
HttpOf(cs) == IF cs = "healthy" \/ cs = "nohealth" THEN "{\"status\":\"ok\"}" ELSE FAIL

\* part_008: the per-service body of getServicesStatus
EvalServiceP8(serviceName, cs) ==
    LET inspectOutput == InspectOf(cs) IN
    IF inspectOutput = "not-found"
      THEN Entry("stopped", "unknown", 0, "null")
    ELSE IF ParseRunning(inspectOutput) = "throws"
      THEN Entry("error", "unknown", 1, "null")
    ELSE
      LET health == getServiceHealthP8(serviceName, PsStatusOf(cs), HttpOf(cs)) IN
      IF ParseRunning(inspectOutput) = "true"
        THEN Entry("running", health, IF health = "unhealthy" THEN 1 ELSE 0, "sample")
        ELSE Entry("stopped", "unknown", 0, "null")

SnapshotP8(c) == [ s \in Services |-> EvalServiceP8(s, c[s]) ]

\* the commands of one per-service evaluation that can throw: the inspect
\* of line 678, the commands of getServiceHealth, docker stats
EvalCommands == { "inspect", "health", "stats" }

\* docker stats ... || echo "0%;0MB;0B", and the .catch of line 756
StatsOf(failing) == IF "stats" \in failing THEN "zeros" ELSE "sample"

\* docker-service.ts: the per-service body of getServicesStatus, the
\* commands in failing throwing
EvalServiceDSWith(serviceName, cs, failing) ==
    LET inspectOutput == Trim(InspectOf(cs)) IN
    IF "inspect" \in failing
      THEN Entry("not_created", "not_created", 0, "null")
    ELSE IF inspectOutput = "not-found" \/ Includes(inspectOutput, "Error: No such object")
      THEN Entry("not_created", "not_created", 0, "null")
    ELSE IF ParseRunning(inspectOutput) # "true"
      THEN Entry("not_created", "not_created", 0, "null")
    ELSE
      LET health == getServiceHealthDS(serviceName, inspectOutput,
                                       IF "health" \in failing THEN FAIL
                                       ELSE HealthFormatOf(cs)) IN
      Entry("running", health, IF health = "unhealthy" THEN 1 ELSE 0, StatsOf(failing))

\* the same with every command answering
EvalServiceDS(serviceName, cs) == EvalServiceDSWith(serviceName, cs, {})

createNotCreatedServices == [ s \in Services |-> Entry("not_created", "not_created", 0, "null") ]

SnapshotDS(c) == [ s \in Services |-> EvalServiceDS(s, c[s]) ]

\* services whose evaluation can throw (exec rejecting)
ErrorProne == { "storaged" }

\* which commands throw for which service during one status call
NoFaults == [ s \in Services |-> {} ]
Faults ==
    { [ s \in Services |-> IF s \in ErrorProne THEN failing ELSE {} ] :
        failing \in { {} } \cup { { cmd } : cmd \in EvalCommands } }

\* the services whose evaluation ends in the catch of lines 778-792
Errored(faults) == { s \in Services : "inspect" \in faults[s] }

\* docker-service.ts lines 667-793: the evaluations of the four services,
\* each with its own try/catch
SnapshotDSAborting(c, faults) ==
    IF faults = NoFaults THEN [ s \in Services |-> EvalServiceDS(s, c[s]) ]
    ELSE createNotCreatedServices
SnapshotDSWith(c, faults) ==
    [ s \in Services |-> EvalServiceDSWith(s, c[s], faults[s]) ]

\* docker-service.ts line 799
AllEvaluated(services) == Cardinality(Keys(services)) = Len(serviceConfigs)

\* part_008 line 502: the status query answers from the cache
UseCacheP8Never(starting, cache) == FALSE
UseCacheP8(starting, cache) == starting /\ Keys(cache) # {}

\* part_008 lines 333-335
allHealthy(currentStatus) ==
    \A s \in Keys(currentStatus) :
        currentStatus[s].status = "running" /\ currentStatus[s].health = "healthy"

\* part_008 lines 355-357
unhealthyServicesAll(finalStatus) == Keys(finalStatus)
unhealthyServices(finalStatus) ==
    { s \in Keys(finalStatus) :
        finalStatus[s].status # "running" \/ finalStatus[s].health # "healthy" }

\* the containers that are running and natively healthy
HealthySet(c) == { s \in Services : c[s] = "healthy" }

----------------------------------------------------------------------------
(* Invocations *)

StartCallers == { "start", "toggle" }

NoResult == [ success |-> FALSE, error |-> "<pending>", failed |-> {} ]
Failure(msg, names) == [ success |-> FALSE, error |-> msg, failed |-> names ]
Success == [ success |-> TRUE, error |-> "<undefined>", failed |-> {} ]

\* one startServices() invocation.  pc, retries, idx, attempt and snap are
\* the invocation's locals; the remaining fields record its history.
IdleCall ==
    [ pc |-> "idle", retries |-> 0, idx |-> 0, attempt |-> 0, snap |-> NoSnapshot,
      result |-> NoResult,
      cmds |-> {},           \* external commands issued
      sawFlag |-> FALSE,     \* found servicesStarting set on entry
      upDone |-> FALSE,      \* its docker compose up has succeeded
      probes |-> 0,          \* status reads of the current wait loop
      basis |-> "none",      \* were the containers healthy at the deciding poll
      never |-> {},          \* services not yet seen healthy since its up
      always |-> {},         \* services healthy ever since its up
      left |-> FALSE,        \* a service stopped being healthy since its up
      stayed |-> FALSE,      \* success, and all healthy ever since
      resolved |-> {},       \* services whose wait ended on "healthy"
      imageCheck |-> "none" ] \* "ran", or the cached image check it trusted

UnusedCall == [ IdleCall EXCEPT !.pc = "unused" ]

\* one getServicesStatus() invocation of the renderer
IdleQuery ==
    [ pc |-> "idle", snap |-> NoSnapshot, result |-> NoSnapshot, commit |-> FALSE,
      viaCache |-> FALSE,    \* answered from lastServiceStatus
      cmds |-> {},           \* external commands issued
      pre |-> FALSE,         \* began after a start that succeeded and stayed so
      absent |-> FALSE,      \* the compose file was absent when it began
      before |-> NoSnapshot, \* lastServiceStatus when it began
      errored |-> {},        \* services whose evaluation threw
      faults |-> NoFaults,   \* the commands that threw, by service
      replaced |-> NoSnapshot ] \* the cache it overwrote while a start was in flight

NoImageCache == [ set |-> FALSE, status |-> FALSE ]
NoComposeCache == [ set |-> FALSE, exists |-> FALSE ]
NoProbe == [ service |-> "metad", state |-> "absent", failing |-> {}, http |-> FAIL ]
NoVerdict == [ p8 |-> "<none>", ds |-> "<none>", checker |-> "<none>" ]

InFlight(r) == r.pc \notin { "idle", "done", "unused" }

\* between the assignment of servicesStarting and its clearing
InSection(r) == InFlight(r) /\ r.pc # "final"

Return(r, res) == [ r EXCEPT !.pc = "done", !.result = res, !.snap = NoSnapshot,
                             !.stayed = FALSE ]

\* the methods whose statements after the entry guard all lie in one try
\* block, the catch of which returns { success: false, error }
TryBodies ==
    { "startServices", "stopServices", "cleanupServices", "startService",
      "stopService", "restartService" }

CaughtNowhere(method) == FALSE
Caught(method) == method \in TryBodies

\* an await of startServices rejects with error: the catch returns the
\* failure, an exception that is not caught rejects the call
Raise(r, error) ==
    IF Caught("startServices") THEN Return(r, Failure(error, {}))
    ELSE [ r EXCEPT !.pc = "rejected" ]
----------------------------------------------------------------------------
(* History bookkeeping *)

\* the invocation has yet to take the status read its outcome rests on
Counting(r) ==
    /\ InFlight(r) /\ r.upDone
    /\ r.pc # "final"
    /\ ~(r.pc = "pollcommit" /\ allHealthy(r.snap))

\* the containers change from c1 to c2 while invocation r is around
ObserveCall(r, c1, c2) ==
    IF Counting(r) THEN
      [ r EXCEPT !.never = @ \ HealthySet(c2),
                 !.always = @ \cap HealthySet(c2),
                 !.left = @ \/ (HealthySet(c1) \ HealthySet(c2) # {}) ]
    ELSE IF r.pc = "done" THEN [ r EXCEPT !.stayed = @ /\ HealthySet(c2) = Services ]
    ELSE r

\* docker compose up -d of invocation r has succeeded, leaving containers c2
UpDone(r, c2) ==
    [ r EXCEPT !.upDone = TRUE, !.never = Services \ HealthySet(c2),
               !.always = HealthySet(c2), !.left = FALSE ]

\* invocation r returns success while the containers are c
ReturnSuccess(r, c) ==
    [ Return(r, Success) EXCEPT
        !.stayed = (r.never = {} /\ ~r.left /\ HealthySet(c) = Services) ]

Live(c) == IF HealthySet(c) = Services THEN "live" ELSE "stale"

----------------------------------------------------------------------------
(* The container runtime *)

\* health states docker compose up -d can leave the created containers in
UpOutcomes ==
    { [ s \in Services |-> "starting" ],
      [ s \in Services |-> "healthy" ],
      [ s \in Services |-> IF s = "storaged" THEN "starting" ELSE "healthy" ] }

\* docker compose up -d: containers that are not up are (re)created
UpEffect(c, outcome) == [ s \in Services |-> IF IsUp(c[s]) THEN c[s] ELSE outcome[s] ]

Changed(c2) ==
    /\ envLeft > 0
    /\ envLeft' = envLeft - 1
    /\ cont' = c2
    /\ call' = [ c \in StartCallers |-> ObserveCall(call[c], cont, c2) ]
    /\ UNCHANGED << envVars, imagesPresent, servicesStarting, lastServiceStatus,
                    imageCheckCache, composeFile, composeFileCache, query,
                    probe, verdict, ops,
                    imageLoadingProgress, loaders, mock >>

\* a container's health check reports
HealthCheckFires(s) ==
    /\ cont[s] \in { "starting", "healthy", "unhealthy" }
    /\ \E h \in { "healthy", "unhealthy" } :
         /\ h # cont[s]
         /\ Changed([ cont EXCEPT ![s] = h ])

\* a container's process exits
ContainerExits(s) ==
    /\ IsUp(cont[s])
    /\ Changed([ cont EXCEPT ![s] = "exited" ])
----------------------------------------------------------------------------
(* part_008: startServices *)

\* line 273
AlreadyStartingNever(starting) == FALSE
AlreadyStarting(starting) == starting

\* line 282, negated
RequirementsMet(d) == d = "ok"

\* lines 126-130; elapsed is now - timestamp
isImageCheckCacheValid(cache, elapsed) == cache.set /\ elapsed < CACHE_DURATION

\* lines 132-137
updateImageCheckCache(status) == [ set |-> TRUE, status |-> status ]

\* DockerChecker.ensureImagesLoaded: load the images that are missing
CheckerEnsureImagesLoaded(d, present, loadOk) ==
    IF d \in { "absent", "stopped" } THEN FALSE
    ELSE IF present THEN TRUE
    ELSE loadOk

\* lines 318-321: what follows the image check
AfterImagesPolls == "poll"
AfterImages == "up"

\* line 350
NextRetryStuck(retries) == retries
NextRetry(retries) == retries + 1

\* lines 273-281: the guard, the flag, the requirements check is issued
P8Enter(c) ==
    /\ rev = "p8"
    /\ call[c].pc = "idle"
    /\ IF AlreadyStarting(servicesStarting)
         THEN /\ call' = [ call EXCEPT ![c] =
                    [ Return(@, Failure("Services are already starting", {}))
                        EXCEPT !.sawFlag = servicesStarting ] ]
              /\ UNCHANGED servicesStarting
         ELSE /\ servicesStarting' = TRUE
              /\ call' = [ call EXCEPT ![c] =
                    [ @ EXCEPT !.pc = "check", !.sawFlag = servicesStarting,
                               !.cmds = @ \cup { "docker info" } ] ]
    /\ UNCHANGED << envVars, cont, envLeft, imagesPresent, lastServiceStatus,
                    imageCheckCache, composeFile, composeFileCache, query,
                    probe, verdict, ops,
                    imageLoadingProgress, loaders, mock >>

\* lines 282-298 and 321: requirements, the image cache, the next command
P8Check(c) ==
    /\ rev = "p8"
    /\ call[c].pc = "check"
    /\ IF ~RequirementsMet(docker)
         THEN call' = [ call EXCEPT ![c] =
                 Return(@, Failure("Docker system requirements not met", {})) ]
         ELSE \E elapsed \in { 0, CACHE_DURATION } :
                IF isImageCheckCacheValid(imageCheckCache, elapsed)
                  THEN call' = [ call EXCEPT ![c] =
                         [ @ EXCEPT !.pc = AfterImages,
                                    !.imageCheck = IF imageCheckCache.status
                                                     THEN "cached true"
                                                     ELSE "cached false",
                                    !.cmds = @ \cup { "compose up" } ] ]
                  ELSE call' = [ call EXCEPT ![c] =
                         [ @ EXCEPT !.pc = "images", !.imageCheck = "ran",
                                    !.cmds = @ \cup { "image inspect" } ] ]
    /\ UNCHANGED << envVars, cont, envLeft, imagesPresent, servicesStarting,
                    lastServiceStatus, imageCheckCache, composeFile,
                    composeFileCache, query, probe, verdict, ops,
                    imageLoadingProgress, loaders, mock >>

\* lines 298-321: images ensured, the cache written, compose up issued
P8Images(c) ==
    /\ rev = "p8"
    /\ call[c].pc = "images"
    /\ \E loadOk \in BOOLEAN :
         LET imagesLoaded == CheckerEnsureImagesLoaded(docker, imagesPresent, loadOk) IN
         /\ imagesPresent' = imagesLoaded
         /\ imageCheckCache' = updateImageCheckCache(imagesLoaded)
         /\ IF ~imagesLoaded
              THEN /\ servicesStarting' = FALSE
                   /\ call' = [ call EXCEPT ![c] =
                        Return(@, Failure("Failed to load required Docker images", {})) ]
              ELSE /\ UNCHANGED servicesStarting
                   /\ call' = [ call EXCEPT ![c] =
                        [ @ EXCEPT !.pc = AfterImages, !.cmds = @ \cup { "compose up" } ] ]
    /\ UNCHANGED << envVars, cont, envLeft, lastServiceStatus, composeFile,
                    composeFileCache, query, probe, verdict, ops,
                    imageLoadingProgress, loaders, mock >>

\* lines 321-324 and 365-372: compose up returns or throws
P8Up(c) ==
    /\ rev = "p8"
    /\ call[c].pc = "up"
    /\ \/ \E outcome \in UpOutcomes :
            LET c2 == UpEffect(cont, outcome) IN
            /\ cont' = c2
            /\ call' = [ o \in StartCallers |->
                 IF o = c THEN [ UpDone(call[c], c2) EXCEPT !.pc = "poll" ]
                 ELSE ObserveCall(call[o], cont, c2) ]
            /\ UNCHANGED servicesStarting
       \/ /\ servicesStarting' = FALSE
          /\ call' = [ call EXCEPT ![c] = Raise(@, "Command failed") ]
          /\ UNCHANGED cont
    /\ UNCHANGED << envVars, envLeft, imagesPresent, lastServiceStatus,
                    imageCheckCache, composeFile, composeFileCache, query,
                    probe, verdict, ops,
                    imageLoadingProgress, loaders, mock >>

\* lines 331-354: one turn of the poll loop, up to the await inside
\* getServicesStatus; after the last turn the flag is cleared and the
\* final evaluation is read
P8Poll(c) ==
    /\ rev = "p8"
    /\ call[c].pc = "poll"
    /\ IF call[c].retries < maxRetries
         THEN IF UseCacheP8(servicesStarting, lastServiceStatus)
                THEN IF allHealthy(lastServiceStatus)
                       THEN /\ servicesStarting' = FALSE
                            /\ call' = [ call EXCEPT ![c] =
                                 [ ReturnSuccess(@, cont) EXCEPT
                                     !.probes = @ + 1, !.basis = Live(cont) ] ]
                       ELSE /\ UNCHANGED servicesStarting
                            /\ call' = [ call EXCEPT ![c] =
                                 [ @ EXCEPT !.probes = @ + 1, !.basis = Live(cont),
                                            !.retries = NextRetry(@) ] ]
                ELSE /\ UNCHANGED servicesStarting
                     /\ call' = [ call EXCEPT ![c] =
                          [ @ EXCEPT !.pc = "pollcommit", !.probes = @ + 1,
                                     !.basis = Live(cont),
                                     !.snap = SnapshotP8(cont),
                                     !.cmds = @ \cup { "inspect" } ] ]
         ELSE /\ servicesStarting' = FALSE
              /\ call' = [ call EXCEPT ![c] =
                   [ @ EXCEPT !.pc = "final", !.basis = Live(cont),
                              !.snap = SnapshotP8(cont),
                              !.cmds = @ \cup { "inspect" } ] ]
    /\ UNCHANGED << envVars, cont, envLeft, imagesPresent, lastServiceStatus,
                    imageCheckCache, composeFile, composeFileCache, query,
                    probe, verdict, ops,
                    imageLoadingProgress, loaders, mock >>

\* lines 599-602 and 333-350: the evaluation is stored, the loop decides
P8PollCommit(c) ==
    /\ rev = "p8"
    /\ call[c].pc = "pollcommit"
    /\ lastServiceStatus' = call[c].snap
    /\ IF allHealthy(call[c].snap)
         THEN /\ servicesStarting' = FALSE
              /\ call' = [ call EXCEPT ![c] = ReturnSuccess(@, cont) ]
         ELSE /\ UNCHANGED servicesStarting
              /\ call' = [ call EXCEPT ![c] =
                   [ @ EXCEPT !.pc = "poll", !.snap = NoSnapshot,
                              !.retries = NextRetry(@) ] ]
    /\ UNCHANGED << envVars, cont, envLeft, imagesPresent, imageCheckCache,
                    composeFile, composeFileCache, query, probe, verdict, ops,
                    imageLoadingProgress, loaders, mock >>

\* lines 599-602 and 355-364: the final evaluation is stored and reported
P8Final(c) ==
    /\ rev = "p8"
    /\ call[c].pc = "final"
    /\ lastServiceStatus' = call[c].snap
    /\ LET names == unhealthyServices(call[c].snap) IN
         call' = [ call EXCEPT ![c] =
           IF names = {} THEN ReturnSuccess(@, cont)
           ELSE Return(@, Failure("Services failed to start properly", names)) ]
    /\ UNCHANGED << envVars, cont, envLeft, imagesPresent, servicesStarting,
                    imageCheckCache, composeFile, composeFileCache, query,
                    probe, verdict, ops,
                    imageLoadingProgress, loaders, mock >>

----------------------------------------------------------------------------
(* part_008: getServicesStatus called by the renderer *)

\* a start has succeeded and the containers have been healthy ever since
Settled == \E c \in StartCallers : call[c].pc = "done" /\ call[c].stayed

\* lines 500-514: answered from the cache, or the containers are read
P8QueryBegin ==
    /\ rev = "p8"
    /\ query.pc = "idle"
    /\ IF UseCacheP8(servicesStarting, lastServiceStatus)
         THEN query' = [ query EXCEPT !.pc = "returned", !.viaCache = TRUE,
                                      !.result = lastServiceStatus,
                                      !.pre = Settled ]
         ELSE query' = [ query EXCEPT !.pc = "reading", !.commit = TRUE,
                                      !.snap = SnapshotP8(cont),
                                      !.cmds = @ \cup { "inspect" },
                                      !.pre = Settled ]
    /\ UNCHANGED << envVars, cont, envLeft, imagesPresent, servicesStarting,
                    lastServiceStatus, imageCheckCache, composeFile,
                    composeFileCache, call, probe, verdict, ops,
                    imageLoadingProgress, loaders, mock >>

\* lines 599-602
P8QueryCommit ==
    /\ rev = "p8"
    /\ query.pc = "reading"
    /\ lastServiceStatus' = query.snap
    /\ query' = [ query EXCEPT !.pc = "returned", !.result = query.snap,
                               !.snap = NoSnapshot,
                               !.replaced = IF servicesStarting THEN lastServiceStatus
                                            ELSE NoSnapshot ]
    /\ UNCHANGED << envVars, cont, envLeft, imagesPresent, servicesStarting,
                    imageCheckCache, composeFile, composeFileCache, call,
                    probe, verdict, ops,
                    imageLoadingProgress, loaders, mock >>

----------------------------------------------------------------------------
(* docker-service.ts: startServices *)

\* lines 170-201; elapsed is now - lastCheck
composeCacheFresh(cache, elapsed) == cache.set /\ elapsed < COMPOSE_CACHE_DURATION

verifyComposeFile(cache, elapsed, file) ==
    IF composeCacheFresh(cache, elapsed) THEN cache.exists ELSE file = "valid"

\* the cache verifyComposeFile leaves
verifiedComposeCache(cache, elapsed, file) ==
    IF composeCacheFresh(cache, elapsed) THEN cache
    ELSE [ set |-> TRUE, exists |-> (file = "valid") ]

\* lines 293-303
checkDockerStatusAlways(d) == TRUE
checkDockerStatus(d) == d \in { "nocompose", "ok" }

\* line 351
NextAttempt(attempt) == attempt + 1

\* lines 379
HttpPasses(output) == output # FAIL /\ (Includes(output, "ok") \/ Includes(output, "healthy"))

\* line 394: what the check after the last attempt accepts
FinalAccepts(health) == health = "starting" \/ health = "healthy"

\* lines 397-404: no guard; initializePaths is entered
DSEnter(c) ==
    /\ rev = "ds"
    /\ call[c].pc = "idle"
    /\ call' = [ call EXCEPT ![c] = [ @ EXCEPT !.pc = "init" ] ]
    /\ UNCHANGED << envVars, cont, envLeft, imagesPresent, servicesStarting,
                    lastServiceStatus, imageCheckCache, composeFile,
                    composeFileCache, query, probe, verdict, ops,
                    imageLoadingProgress, loaders, mock >>

\* lines 203-269 and 404-407: the compose file is verified or set up
DSInit(c) ==
    /\ rev = "ds"
    /\ call[c].pc = "init"
    /\ \E elapsed \in { 0, COMPOSE_CACHE_DURATION } :
         IF verifyComposeFile(composeFileCache, elapsed, composeFile)
           THEN /\ composeFileCache' =
                     verifiedComposeCache(composeFileCache, elapsed, composeFile)
                /\ UNCHANGED composeFile
                /\ call' = [ call EXCEPT ![c] =
                     [ @ EXCEPT !.pc = "check", !.cmds = @ \cup { "docker info" } ] ]
           ELSE IF template
             THEN /\ composeFile' = "valid"
                  /\ composeFileCache' = [ set |-> TRUE, exists |-> TRUE ]
                  /\ call' = [ call EXCEPT ![c] =
                       [ @ EXCEPT !.pc = "check", !.cmds = @ \cup { "docker info" } ] ]
             ELSE /\ composeFileCache' =
                       verifiedComposeCache(composeFileCache, elapsed, composeFile)
                  /\ UNCHANGED composeFile
                  /\ call' = [ call EXCEPT ![c] =
                       Raise(@, "Template compose file not found") ]
    /\ UNCHANGED << envVars, cont, envLeft, imagesPresent, servicesStarting,
                    lastServiceStatus, imageCheckCache, query, probe, verdict, ops,
                    imageLoadingProgress, loaders, mock >>

\* lines 407-418: the engine check decides, compose up is issued
DSCheck(c) ==
    /\ rev = "ds"
    /\ call[c].pc = "check"
    /\ IF checkDockerStatus(docker)
         THEN call' = [ call EXCEPT ![c] =
                [ @ EXCEPT !.pc = "up", !.cmds = @ \cup { "compose up" } ] ]
         ELSE call' = [ call EXCEPT ![c] =
                Return(@, Failure("Docker is not running", {})) ]
    /\ UNCHANGED << envVars, cont, envLeft, imagesPresent, servicesStarting,
                    lastServiceStatus, imageCheckCache, composeFile,
                    composeFileCache, query, probe, verdict, ops,
                    imageLoadingProgress, loaders, mock >>

\* lines 418-428: compose up, run in the compose directory, returns or throws
DSUp(c) ==
    /\ rev = "ds"
    /\ call[c].pc = "up"
    /\ \/ /\ docker = "ok" /\ composeFile = "valid"
          /\ \E outcome \in UpOutcomes :
               LET c2 == UpEffect(cont, outcome) IN
               /\ cont' = c2
               /\ call' = [ o \in StartCallers |->
                    IF o = c THEN [ UpDone(call[c], c2) EXCEPT !.pc = "wait", !.idx = 1 ]
                    ELSE ObserveCall(call[o], cont, c2) ]
       \/ /\ call' = [ call EXCEPT ![c] = Raise(@, "Command failed") ]
          /\ UNCHANGED cont
    /\ UNCHANGED << envVars, envLeft, imagesPresent, servicesStarting,
                    lastServiceStatus, imageCheckCache, composeFile,
                    composeFileCache, query, probe, verdict, ops,
                    imageLoadingProgress, loaders, mock >>

\* lines 427-442: waitForHealthCheck of service idx returned true
Passed(r, healthy, c) ==
    LET r2 == [ r EXCEPT !.probes = @ + 1,
                         !.resolved = IF healthy THEN @ \cup { serviceConfigs[r.idx] } ELSE @ ]
    IN IF r.idx < Len(serviceConfigs)
         THEN [ r2 EXCEPT !.idx = @ + 1, !.attempt = 0, !.probes = 0 ]
         ELSE ReturnSuccess(r2, c)

\* lines 351-390: the attempt ends without a verdict
Retry(r) == [ r EXCEPT !.probes = @ + 1, !.attempt = NextAttempt(@) ]

\* lines 342-395 and 434-438: one attempt of waitForHealthCheck, or the
\* check after the last attempt
DSWait(c) ==
    /\ rev = "ds"
    /\ call[c].pc = "wait"
    /\ LET r == call[c]
           service == serviceConfigs[r.idx]
           health == getServiceHealthDS(service, Trim(InspectOf(cont[service])),
                                        HealthFormatOf(cont[service]))
       IN IF r.attempt < maxAttempts
            THEN IF health = "healthy"
                   THEN call' = [ call EXCEPT ![c] = Passed(r, TRUE, cont) ]
                 ELSE IF health = "starting"
                   THEN call' = [ call EXCEPT ![c] = Retry(r) ]
                 ELSE IF platform = "darwin"
                   THEN \E output \in (IF IsUp(cont[service]) THEN HttpOuts ELSE { FAIL }) :
                          IF HttpPasses(output)
                            THEN call' = [ call EXCEPT ![c] = Passed(r, TRUE, cont) ]
                            ELSE call' = [ call EXCEPT ![c] = Retry(r) ]
                 ELSE call' = [ call EXCEPT ![c] = Retry(r) ]
            ELSE IF FinalAccepts(health)
                   THEN call' = [ call EXCEPT ![c] = Passed(r, health = "healthy", cont) ]
                   ELSE call' = [ call EXCEPT ![c] =
                          [ Return(r, Failure("Service failed to become healthy", { service }))
                              EXCEPT !.probes = @ + 1 ] ]
    /\ UNCHANGED << envVars, cont, envLeft, imagesPresent, servicesStarting,
                    lastServiceStatus, imageCheckCache, composeFile,
                    composeFileCache, query, probe, verdict, ops,
                    imageLoadingProgress, loaders, mock >>

----------------------------------------------------------------------------
(* docker-service.ts: getServicesStatus called by the renderer *)

\* lines 603-795: the cache is cleared, the preconditions are checked and
\* the containers are read
DSQueryBegin ==
    /\ rev = "ds"
    /\ query.pc = "idle"
    /\ lastServiceStatus' = NoSnapshot
    /\ \E elapsed \in { 0, COMPOSE_CACHE_DURATION }, faults \in Faults :
         LET q == [ query EXCEPT !.pc = "reading", !.pre = Settled,
                                 !.absent = (composeFile # "valid"),
                                 !.before = lastServiceStatus ]
         IN
         /\ composeFileCache' =
              verifiedComposeCache(composeFileCache, elapsed, composeFile)
         /\ IF ~verifyComposeFile(composeFileCache, elapsed, composeFile)
              THEN /\ faults = NoFaults
                   /\ query' = [ q EXCEPT !.commit = FALSE,
                                          !.snap = createNotCreatedServices ]
            ELSE IF ~checkDockerStatus(docker)
              THEN /\ faults = NoFaults
                   /\ query' = [ q EXCEPT !.commit = FALSE,
                                          !.snap = createNotCreatedServices,
                                          !.cmds = @ \cup { "docker info" } ]
            ELSE IF docker # "ok" \/ composeFile # "valid"
                      \/ \A s \in Services : cont[s] = "absent"
              THEN /\ faults = NoFaults
                   /\ query' = [ q EXCEPT !.commit = TRUE,
                                          !.snap = createNotCreatedServices,
                                          !.cmds = @ \cup { "docker info", "compose ps" } ]
            ELSE query' = [ q EXCEPT
                              !.commit = AllEvaluated(SnapshotDSWith(cont, faults)),
                              !.snap = SnapshotDSWith(cont, faults),
                              !.errored = Errored(faults),
                              !.faults = faults,
                              !.cmds = @ \cup { "docker info", "compose ps", "inspect" } ]
    /\ UNCHANGED << envVars, cont, envLeft, imagesPresent, servicesStarting,
                    imageCheckCache, composeFile, call, probe, verdict, ops,
                    imageLoadingProgress, loaders, mock >>

\* lines 642, 654, 795-805: the evaluation is stored and returned
DSQueryCommit ==
    /\ rev = "ds"
    /\ query.pc = "reading"
    /\ lastServiceStatus' = IF query.commit THEN query.snap ELSE lastServiceStatus
    /\ query' = [ query EXCEPT !.pc = "returned", !.result = query.snap,
                               !.snap = NoSnapshot ]
    /\ UNCHANGED << envVars, cont, envLeft, imagesPresent, servicesStarting,
                    imageCheckCache, composeFile, composeFileCache, call,
                    probe, verdict, ops,
                    imageLoadingProgress, loaders, mock >>

\* the renderer polls on an interval: the next invocation
DSQueryAgain ==
    /\ rev = "ds"
    /\ query.pc = "returned"
    /\ query' = IdleQuery
    /\ UNCHANGED << envVars, cont, envLeft, imagesPresent, servicesStarting,
                    lastServiceStatus, imageCheckCache, composeFile,
                    composeFileCache, call, probe, verdict, ops,
                    imageLoadingProgress, loaders, mock >>

\* the persisted compose file is removed from the data directory
ComposeFileRemoved ==
    /\ rev = "ds"
    /\ composeFile = "valid"
    /\ composeFile' = "absent"
    /\ UNCHANGED << envVars, cont, envLeft, imagesPresent, servicesStarting,
                    lastServiceStatus, imageCheckCache, composeFileCache,
                    call, query, probe, verdict, ops,
                    imageLoadingProgress, loaders, mock >>

----------------------------------------------------------------------------
(* docker-service.ts and docker-checker.ts: the other operations *)

\* docker-checker.ts lines 365-436: the three probes of the engine
checkDockerSystem(d) ==
    [ isInstalled |-> d # "absent",
      isRunning   |-> d \in { "nocompose", "ok" },
      compose     |-> d = "ok" ]

\* the exit of each of the four probe commands, TRUE for success
Outcomes == [ version : BOOLEAN, info : BOOLEAN, compose : BOOLEAN, legacy : BOOLEAN ]

\* docker-checker.ts lines 47-119, by command outcome.  compose is
\* "undefined" where the returned object has no compose member; error says
\* whether it has an error string; the result is a returned value
checkDockerSystemOld(run) ==
    IF ~run.version
      THEN [ isInstalled |-> FALSE, isRunning |-> FALSE, compose |-> "undefined",
             error |-> TRUE, cmds |-> << "docker --version" >> ]
    ELSE IF ~run.info
      THEN [ isInstalled |-> TRUE, isRunning |-> FALSE, compose |-> "undefined",
             error |-> TRUE, cmds |-> << "docker --version", "docker info" >> ]
    ELSE IF run.compose
      THEN [ isInstalled |-> TRUE, isRunning |-> TRUE, compose |-> "installed",
             error |-> FALSE,
             cmds |-> << "docker --version", "docker info", "docker compose version" >> ]
    ELSE IF run.legacy
      THEN [ isInstalled |-> TRUE, isRunning |-> TRUE, compose |-> "installed",
             error |-> FALSE,
             cmds |-> << "docker --version", "docker info", "docker compose version",
                         "docker-compose --version" >> ]
    ELSE [ isInstalled |-> TRUE, isRunning |-> TRUE, compose |-> "missing",
           error |-> TRUE,
           cmds |-> << "docker --version", "docker info", "docker compose version",
                       "docker-compose --version" >> ]

\* docker-checker.ts lines 365-436, by command outcome
checkDockerSystemSkipsInfo(run) == checkDockerSystemOld([ run EXCEPT !.info = TRUE ])
checkDockerSystemNew(run) ==
    IF ~run.version
      THEN [ isInstalled |-> FALSE, isRunning |-> FALSE, compose |-> "undefined",
             error |-> TRUE, cmds |-> << "docker --version" >> ]
    ELSE IF ~run.info
      THEN [ isInstalled |-> TRUE, isRunning |-> FALSE, compose |-> "undefined",
             error |-> TRUE, cmds |-> << "docker --version", "docker info" >> ]
    ELSE IF ~run.compose /\ ~run.legacy
      THEN [ isInstalled |-> TRUE, isRunning |-> TRUE, compose |-> "missing",
             error |-> TRUE,
             cmds |-> << "docker --version", "docker info", "docker compose version",
                         "docker-compose --version" >> ]
    ELSE [ isInstalled |-> TRUE, isRunning |-> TRUE, compose |-> "installed",
           error |-> FALSE,
           cmds |-> IF run.compose
                      THEN << "docker --version", "docker info", "docker compose version" >>
                      ELSE << "docker --version", "docker info", "docker compose version",
                              "docker-compose --version" >> ]

\* docker-service.ts lines 60-92: config.displayName
displayName(s) ==
    CASE s = "metad"    -> "Meta Service"
      [] s = "storaged" -> "Storage Service"
      [] s = "graphd"   -> "Graph Service"
      [] s = "studio"   -> "Studio"

\* String.prototype.toLowerCase on the names that are passed
toLowerCase(x) ==
    CASE x \in { "Meta Service", "META SERVICE", "mETA sERVICE" }          -> "meta service"
      [] x \in { "Storage Service", "STORAGE SERVICE", "sTORAGE sERVICE" } -> "storage service"
      [] x \in { "Graph Service", "GRAPH SERVICE", "gRAPH sERVICE" }       -> "graph service"
      [] x \in { "Studio", "STUDIO", "sTUDIO" }                            -> "studio"
      [] x = "Graphd"                                                      -> "graphd"
      [] OTHER                                                             -> x

\* the names getServiceLogs is called with: the display names in four
\* letter cases, the keys of the table, a key in another case, no service
LogNames ==
    { "Meta Service", "META SERVICE", "mETA sERVICE", "meta service",
      "Storage Service", "STORAGE SERVICE", "sTORAGE sERVICE", "storage service",
      "Graph Service", "GRAPH SERVICE", "gRAPH sERVICE", "graph service",
      "Studio", "STUDIO", "sTUDIO", "Graphd", "console" } \cup Services

\* docker-service.ts lines 837-841: the first entry of the table that
\* matches, "none" for undefined
findLogServiceExact(x) ==
    LET hits == { i \in 1..Len(serviceConfigs) :
                    displayName(serviceConfigs[i]) = x \/ serviceConfigs[i] = x }
    IN IF hits = {} THEN "none"
       ELSE serviceConfigs[CHOOSE i \in hits : \A j \in hits : i <= j]
findLogService(x) ==
    LET hits == { i \in 1..Len(serviceConfigs) :
                    \/ displayName(serviceConfigs[i]) = x
                    \/ serviceConfigs[i] = x
                    \/ toLowerCase(displayName(serviceConfigs[i])) = toLowerCase(x) }
    IN IF hits = {} THEN "none"
       ELSE serviceConfigs[CHOOSE i \in hits : \A j \in hits : i <= j]

\* docker-service.ts lines 826-879 with the engine running: the service
\* the name resolves to and the logs command issued for it
GetServiceLogs ==
    /\ rev = "checker"
    /\ Len(ops) < MaxOps
    /\ \E x \in LogNames :
         LET service == findLogService(x) IN
         ops' = Append(ops,
                  [ kind |-> "getServiceLogs", name |-> x, service |-> service,
                    cmds |-> IF service = "none" THEN << >>
                             ELSE << << "docker compose logs --no-color --tail=100",
                                        service >> >> ])
    /\ UNCHANGED << envVars, cont, envLeft, imagesPresent, servicesStarting,
                    lastServiceStatus, imageCheckCache, composeFile,
                    composeFileCache, call, query, probe, verdict,
                    imageLoadingProgress, loaders, mock >>

\* one call of checkDockerSystem of either revision of docker-checker.ts
CheckSystem ==
    /\ rev = "checker"
    /\ Len(ops) < MaxOps
    /\ \E run \in Outcomes, old \in BOOLEAN :
         ops' = Append(ops,
                  [ kind |-> "checkDockerSystem", run |-> run, old |-> old,
                    status |-> IF old THEN checkDockerSystemOld(run)
                                      ELSE checkDockerSystemNew(run) ])
    /\ UNCHANGED << envVars, cont, envLeft, imagesPresent, servicesStarting,
                    lastServiceStatus, imageCheckCache, composeFile,
                    composeFileCache, call, query, probe, verdict,
                    imageLoadingProgress, loaders, mock >>

\* the commands checkDockerSystem issues: each probe runs when the one
\* before it succeeded, the legacy compose probe when the V2 probe failed
ProbeCommands(d) ==
    { "docker --version" }
      \cup (IF d # "absent" THEN { "docker info" } ELSE {})
      \cup (IF d \in { "nocompose", "ok" } THEN { "docker compose version" } ELSE {})
      \cup (IF d = "nocompose" THEN { "docker-compose --version" } ELSE {})

EngineProbes ==
    { "docker --version", "docker info", "docker compose version",
      "docker-compose --version" }

\* docker-checker.ts lines 479-502: docker image inspect of every image of
\* the manifest; a failing inspect, as without a daemon, answers false
checkRequiredImagesNever(d, present) == FALSE
checkRequiredImages(d, present) == d \in { "nocompose", "ok" } /\ present

\* the images of the manifest, in the order of its entries
manifest == << "graphd", "metad", "storaged", "studio", "console" >>

\* docker-checker.ts lines 504-547: docker load of the images in manifest
\* order, given up at the first load that fails (failAt, 0 for none)
loadImages(d, failAt) ==
    LET st == checkDockerSystem(d) IN
    IF ~st.isInstalled \/ ~st.isRunning THEN [ ok |-> FALSE, loads |-> 0 ]
    ELSE IF failAt = 0 THEN [ ok |-> TRUE, loads |-> Len(manifest) ]
    ELSE [ ok |-> FALSE, loads |-> failAt ]

WholeStack == { "stopServices", "cleanupServices" }

\* one operation that returned
Returned(kind, name, success, cmds) ==
    [ kind |-> kind, name |-> name, success |-> success, cmds |-> cmds,
      loads |-> 0, present |-> imagesPresent,
      isInstalled |-> FALSE, isRunning |-> FALSE, rejected |-> FALSE,
      threw |-> FALSE,        \* an await of the operation rejected
      error |-> "<undefined>",
      cwd |-> "<no compose command>", \* the directory its compose command ran in
      \* the containers a whole-stack stop or cleanup found and left
      before |-> IF kind \in WholeStack THEN cont ELSE << >>,
      after  |-> IF kind \in WholeStack THEN cont ELSE << >> ]

\* an await of the operation rejected after it had issued cmds
Thrown(kind, name, cmds) ==
    [ Returned(kind, name, FALSE, cmds) EXCEPT !.rejected = ~Caught(kind),
                                               !.threw = TRUE,
                                               !.error = "<message of the error>" ]

OpsFrameEndingStart ==
    /\ servicesStarting' = FALSE
    /\ UNCHANGED << envVars, envLeft, lastServiceStatus,
                    imageCheckCache, query, probe, verdict,
                    imageLoadingProgress, loaders, mock >>
OpsFrame ==
    UNCHANGED << envVars, envLeft, servicesStarting, lastServiceStatus,
                 imageCheckCache, query, probe, verdict,
                    imageLoadingProgress, loaders, mock >>

\* docker-service.ts lines 305-310
GetSystemStatus ==
    /\ rev = "ds"
    /\ Len(ops) < MaxOps
    /\ LET status == checkDockerSystem(docker) IN
       ops' = Append(ops,
                [ Returned("getSystemStatus", "", TRUE, ProbeCommands(docker))
                    EXCEPT !.isInstalled = status.isInstalled,
                           !.isRunning = status.isRunning ])
    /\ UNCHANGED << cont, imagesPresent, composeFile, composeFileCache, call >>
    /\ OpsFrame

\* docker-service.ts lines 116-150
DSEnsureImagesLoaded ==
    /\ rev = "ds"
    /\ Len(ops) < MaxOps
    /\ \E failAt \in 0..Len(manifest) :
         LET isRunning == checkDockerStatus(docker)
             hasImages == checkRequiredImages(docker, imagesPresent)
             loading   == isRunning /\ ~hasImages
             load      == loadImages(docker, failAt)
             after     == imagesPresent \/ (loading /\ load.ok)
         IN /\ imagesPresent' = after
            /\ ops' = Append(ops,
                 [ Returned("DockerService.ensureImagesLoaded", "", isRunning,
                            ProbeCommands(docker))
                     EXCEPT !.loads = IF loading THEN load.loads ELSE 0,
                            !.present = after ])
    /\ UNCHANGED << cont, composeFile, composeFileCache, call >>
    /\ OpsFrame

\* docker-checker.ts lines 549-565
CheckerEnsureLoaded ==
    /\ rev = "ds"
    /\ Len(ops) < MaxOps
    /\ \E failAt \in 0..Len(manifest) :
         LET dockerStatus == checkDockerSystem(docker)
             ready     == dockerStatus.isInstalled /\ dockerStatus.isRunning
             hasImages == checkRequiredImages(docker, imagesPresent)
             loading   == ready /\ ~hasImages
             load      == loadImages(docker, failAt)
             after     == imagesPresent \/ (loading /\ load.ok)
         IN /\ imagesPresent' = after
            /\ ops' = Append(ops,
                 [ Returned("DockerChecker.ensureImagesLoaded", "",
                            ready /\ (hasImages \/ load.ok), ProbeCommands(docker))
                     EXCEPT !.loads = IF loading THEN load.loads ELSE 0,
                            !.present = after ])
    /\ UNCHANGED << cont, composeFile, composeFileCache, call >>
    /\ OpsFrame

\* DockerService.ensureImagesLoaded (lines 116-150) await by await, called by
\* two callers.  null says that imageLoadingProgress is null, current is
\* the member of the object otherwise
Loaders == { "first", "second" }
NoProgress == [ null |-> TRUE, current |-> 0, total |-> 0 ]
\* lines 133 ('preparing', total: 4) and 135-139 (the callback's total)
Progress(current) ==
    [ null |-> FALSE, current |-> current,
      total |-> IF current = 0 THEN total ELSE Len(manifest) ]
IdleLoader ==
    [ pc |-> "idle", index |-> 0, result |-> FALSE,
      trace |-> << >>,        \* the callbacks made and loads started by loadImages
      failedAt |-> 0,         \* the first load that failed, 0 for none
      loadImages |-> "pending" ] \* what loadImages returned

\* docker-checker.ts lines 522, 528: what loadImages does for image i
ProgressEvent(i) ==
    [ ev |-> "progress", current |-> i, total |-> Len(manifest), imageName |-> manifest[i] ]
LoadEvent(i) ==
    [ ev |-> "load", current |-> i, total |-> Len(manifest), imageName |-> manifest[i] ]

\* docker-checker.ts lines 517-536: the loop goes on to the next image
LoadGoesOnRegardless(k, loaded) == k < Len(manifest)
LoadGoesOn(k, loaded) == loaded /\ k < Len(manifest)

LoaderFrame ==
    UNCHANGED << envVars, cont, envLeft, servicesStarting, lastServiceStatus,
                 imageCheckCache, composeFile, composeFileCache, call, query,
                 probe, verdict, ops, mock >>

\* the call is made: line 119, up to the await of checkDockerStatus
LoadBegin(l) ==
    /\ rev = "ds"
    /\ loaders[l].pc = "idle"
    /\ loaders' = [ loaders EXCEPT ![l].pc = "status" ]
    /\ UNCHANGED << imagesPresent, imageLoadingProgress >>
    /\ LoaderFrame

\* lines 119-126: the engine check has resolved
LoadStatus(l) ==
    /\ rev = "ds"
    /\ loaders[l].pc = "status"
    /\ IF checkDockerStatus(docker)
         THEN /\ loaders' = [ loaders EXCEPT ![l].pc = "images" ]
              /\ UNCHANGED imageLoadingProgress
         ELSE /\ loaders' = [ loaders EXCEPT ![l].pc = "done", ![l].result = FALSE ]
              /\ imageLoadingProgress' = NoProgress
    /\ UNCHANGED imagesPresent
    /\ LoaderFrame

\* lines 126-134: checkRequiredImages has resolved; the images are there,
\* or the progress is set and loadImages is called
LoadCheck(l) ==
    /\ rev = "ds"
    /\ loaders[l].pc = "images"
    /\ IF checkRequiredImages(docker, imagesPresent)
         THEN /\ loaders' = [ loaders EXCEPT ![l].pc = "done", ![l].result = TRUE ]
              /\ imageLoadingProgress' = NoProgress
         ELSE /\ loaders' = [ loaders EXCEPT ![l].pc = "loading", ![l].index = 0 ]
              /\ imageLoadingProgress' = Progress(0)
    /\ UNCHANGED imagesPresent
    /\ LoaderFrame

\* lines 134-144 with docker-checker.ts 504-547: an await of loadImages has
\* resolved (index 0: the engine check and the manifest; index k: the load
\* of image k, which succeeded or failed).  The callback sets the progress
\* before the next load; when loadImages returns the progress is cleared
\* and the call returns true
LoadStep(l) ==
    /\ rev = "ds"
    /\ loaders[l].pc = "loading"
    /\ \E loaded \in BOOLEAN :
         LET k == loaders[l].index
             goesOn == IF k = 0 THEN checkDockerStatus(docker)
                       ELSE LoadGoesOn(k, loaded)
             failedAt == IF k > 0 /\ ~loaded /\ loaders[l].failedAt = 0
                           THEN k ELSE loaders[l].failedAt
         IN /\ loaded \/ k > 0
            /\ IF goesOn
                 THEN /\ loaders' = [ loaders EXCEPT
                             ![l].index = k + 1,
                             ![l].failedAt = failedAt,
                             ![l].trace = @ \o << ProgressEvent(k + 1), LoadEvent(k + 1) >> ]
                      /\ imageLoadingProgress' = Progress(k + 1)
                      /\ UNCHANGED imagesPresent
                 ELSE /\ loaders' = [ loaders EXCEPT
                             ![l].pc = "done",
                             ![l].result = TRUE,
                             ![l].failedAt = failedAt,
                             ![l].loadImages =
                               IF k > 0 /\ loaded THEN "true" ELSE "false" ]
                      /\ imageLoadingProgress' = NoProgress
                      /\ imagesPresent' = (imagesPresent \/ (loaded /\ k = Len(manifest)))
    /\ LoaderFrame

NextLoad == \E l \in Loaders : LoadBegin(l) \/ LoadStatus(l) \/ LoadCheck(l) \/ LoadStep(l)

\* the operations that run one compose command
ComposeOps ==
    { "stopServices", "cleanupServices", "startService", "stopService",
      "restartService" }

PerService == { "startService", "stopService", "restartService" }

\* the names the renderer passes: two keys of the table and a display name
OpNames == { "storaged", "studio", "Studio" }

\* lines 463, 492, 902, 939, 993
ComposeCommand(kind) ==
    CASE kind = "stopServices"    -> "docker compose stop"
      [] kind = "cleanupServices" -> "docker compose down"
      [] kind = "startService"    -> "docker compose up -d <service>"
      [] kind = "stopService"     -> "docker compose stop <service>"
      [] kind = "restartService"  -> "docker compose restart <service>"

\* docker-compose.yml depends_on, transitively
Dependencies(s) ==
    CASE s = "metad"    -> {}
      [] s = "storaged" -> { "metad" }
      [] s = "graphd"   -> { "metad", "storaged" }
      [] s = "studio"   -> { "metad", "storaged", "graphd" }

\* the containers after the compose command of an operation has succeeded
CommandEffectRemoving(kind, name, c, outcome) ==
    [ s \in Services |-> IF IsUp(c[s]) THEN "exited" ELSE "absent" ]
CommandEffect(kind, name, c, outcome) ==
    [ s \in Services |->
        CASE kind = "stopServices"    -> IF IsUp(c[s]) THEN "exited" ELSE c[s]
          [] kind = "cleanupServices" -> "absent"
          [] kind = "startService"    ->
               IF s \in { name } \cup Dependencies(name) /\ ~IsUp(c[s])
                 THEN outcome[s] ELSE c[s]
          [] kind = "stopService"     ->
               IF s = name /\ IsUp(c[s]) THEN "exited" ELSE c[s]
          [] kind = "restartService"  ->
               IF s = name /\ c[s] # "absent" THEN outcome[s] ELSE c[s] ]

\* docker-service.ts line 416: path.dirname(this.composeFilePath)
composeDir == "<directory of the compose file>"

\* the working directory of the application's process
processCwd == "<working directory of the process>"

\* docker-checker.ts lines 451-473: execCommand(command) has one parameter
\* and calls exec(command, { env }); the command and the directory the
\* shell runs it in
execCommand(command, cwd) == [ command |-> command, cwd |-> processCwd ]

\* lines 891, 928, 982: the key of the first entry of the table whose
\* config.name is the name passed, "none" for undefined
findServiceEntryByAnyName(x) == findLogService(x)
findServiceEntry(x) ==
    LET hits == { i \in 1..Len(serviceConfigs) : serviceConfigs[i] = x }
    IN IF hits = {} THEN "none"
       ELSE serviceConfigs[CHOOSE i \in hits : \A j \in hits : i <= j]

\* lines 203-224: the compose file is verified, or set up from the template
initializePaths(cache, elapsed, file, tmpl) ==
    IF verifyComposeFile(cache, elapsed, file)
      THEN [ ok |-> TRUE, file |-> file,
             cache |-> verifiedComposeCache(cache, elapsed, file) ]
    ELSE IF tmpl
      THEN [ ok |-> TRUE, file |-> "valid", cache |-> [ set |-> TRUE, exists |-> TRUE ] ]
    ELSE [ ok |-> FALSE, file |-> file,
           cache |-> verifiedComposeCache(cache, elapsed, file) ]

\* lines 452-479, 481-508, 881-916, 918-953, 972-1007
ComposeOperation(kind, name) ==
    /\ rev = "ds"
    /\ Len(ops) < MaxOps
    /\ \E elapsed \in { 0, COMPOSE_CACHE_DURATION } :
         LET paths == initializePaths(composeFileCache, elapsed, composeFile, template)
             command == ComposeCommand(kind)
         IN /\ composeFile' = paths.file
            /\ composeFileCache' = paths.cache
            /\ IF ~paths.ok
                 THEN /\ ops' = Append(ops, Thrown(kind, name, {}))
                      /\ UNCHANGED << cont, call >>
               ELSE IF ~checkDockerStatus(docker)
                 THEN /\ ops' = Append(ops,
                           [ Returned(kind, name, FALSE, ProbeCommands(docker))
                               EXCEPT !.error = "Docker is not running" ])
                      /\ UNCHANGED << cont, call >>
               ELSE IF kind \in PerService /\ findServiceEntry(name) = "none"
                 THEN /\ ops' = Append(ops,
                           [ Returned(kind, name, FALSE, ProbeCommands(docker))
                               EXCEPT !.error = "Service not found: <name>" ])
                      /\ UNCHANGED << cont, call >>
               ELSE \/ /\ docker = "ok" /\ paths.file = "valid"
                       /\ \E outcome \in UpOutcomes :
                            LET dockerServiceName ==
                                  IF kind \in PerService THEN findServiceEntry(name)
                                  ELSE ""
                                c2 == CommandEffect(kind, dockerServiceName, cont, outcome)
                            IN
                            /\ cont' = c2
                            /\ call' = [ c \in StartCallers |->
                                           ObserveCall(call[c], cont, c2) ]
                       /\ ops' = Append(ops,
                            [ Returned(kind, name, TRUE,
                                       ProbeCommands(docker) \cup { command })
                                EXCEPT !.after = IF kind \in WholeStack THEN cont'
                                                 ELSE << >>,
                                       !.cwd = execCommand(command, composeDir).cwd ])
                    \/ /\ ops' = Append(ops,
                            [ Thrown(kind, name, ProbeCommands(docker) \cup { command })
                                EXCEPT !.cwd = execCommand(command, composeDir).cwd ])
                       /\ UNCHANGED << cont, call >>
    /\ UNCHANGED imagesPresent
    /\ OpsFrame

\* what docker compose writes to stderr: nothing, its progress lines, a
\* warning
Stderrs == { "", "Container  Starting  Stopping  Restarting", "WARN: orphan containers" }

\* part_008 lines 690, 726, 783: stderr.includes(word)
StderrIncludes(stderr, word) ==
    /\ stderr = "Container  Starting  Stopping  Restarting"
    /\ word \in { "Starting", "Stopping", "Restarting" }

\* part_008 lines 690, 726, 783: the stderr of a per-service command that
\* is returned as an error; the whole-stack operations only log it
StderrRefused(kind, stderr) ==
    /\ kind \in PerService
    /\ stderr # ""
    /\ CASE kind = "startService" ->
               ~StderrIncludes(stderr, "Creating") /\ ~StderrIncludes(stderr, "Starting")
         [] kind = "stopService"    -> ~StderrIncludes(stderr, "Stopping")
         [] kind = "restartService" -> ~StderrIncludes(stderr, "Restarting")

\* part_008 lines 375-396, 398-419, 671-705, 707-741, 762-796: stopServices,
\* cleanupServices, startService, stopService and restartService
P8ComposeOperation(kind, name) ==
    /\ rev = "p8"
    /\ Len(ops) < MaxOps
    /\ IF ~RequirementsMet(docker)
         THEN /\ ops' = Append(ops,
                   [ Returned(kind, name, FALSE, ProbeCommands(docker))
                       EXCEPT !.error = "Docker is not running" ])
              /\ UNCHANGED << cont, call >>
       ELSE IF kind \in PerService /\ findServiceEntry(name) = "none"
         THEN /\ ops' = Append(ops,
                   [ Returned(kind, name, FALSE, ProbeCommands(docker))
                       EXCEPT !.error = "Service not found: <name>" ])
              /\ UNCHANGED << cont, call >>
         ELSE \/ /\ composeFile = "valid"
                 /\ \E outcome \in UpOutcomes, stderr \in Stderrs :
                      LET dockerServiceName ==
                            IF kind \in PerService THEN findServiceEntry(name) ELSE ""
                          c2 == CommandEffect(kind, dockerServiceName, cont, outcome)
                          cmds == ProbeCommands(docker) \cup { ComposeCommand(kind) }
                      IN
                      /\ cont' = c2
                      /\ call' = [ c \in StartCallers |-> ObserveCall(call[c], cont, c2) ]
                      /\ ops' = Append(ops,
                           IF StderrRefused(kind, stderr)
                             THEN [ Returned(kind, name, FALSE, cmds)
                                      EXCEPT !.error = "<stderr>" ]
                             ELSE [ Returned(kind, name, TRUE, cmds)
                                      EXCEPT !.after = IF kind \in WholeStack THEN c2
                                                       ELSE << >> ])
              \/ /\ ops' = Append(ops,
                      Thrown(kind, name, ProbeCommands(docker) \cup { ComposeCommand(kind) }))
                 /\ UNCHANGED << cont, call >>
    /\ UNCHANGED << imagesPresent, composeFile, composeFileCache >>
    /\ OpsFrame

NextOps ==
    \/ GetSystemStatus
    \/ DSEnsureImagesLoaded
    \/ CheckerEnsureLoaded
    \/ \E kind \in ComposeOps :
         \E name \in (IF kind \in PerService THEN OpNames ELSE { "" }) :
           ComposeOperation(kind, name)
    \/ \E kind \in WholeStack : P8ComposeOperation(kind, "")

\* part_008: the operations that run one compose command
NextOpsP8 ==
    \E kind \in ComposeOps :
      \E name \in (IF kind \in PerService THEN OpNames ELSE { "" }) :
        P8ComposeOperation(kind, name)

----------------------------------------------------------------------------
(* One health resolution by each of the three resolvers *)

Commands == { "inspect", "health", "ps" }

Ran(failing, cmd, out) == IF cmd \in failing THEN FAIL ELSE out

Resolve ==
    /\ rev = "resolvers"
    /\ \E service \in ResolverNames, cs \in CStates,
          failing \in SUBSET Commands, http \in HttpOuts :
         /\ probe' = [ service |-> service, state |-> cs,
                       failing |-> failing, http |-> http ]
         /\ verdict' =
              [ p8 |-> getServiceHealthP8(service,
                         Ran(failing, "ps", PsStatusOf(cs)), http),
                ds |-> getServiceHealthDS(service,
                         Ran(failing, "inspect", Trim(InspectOf(cs))),
                         Ran(failing, "health", HealthFormatOf(cs))),
                checker |-> getServiceHealthChecker(service,
                         Ran(failing, "inspect", StateFormatOf(cs)),
                         Ran(failing, "health", HealthIfFormatOf(cs)),
                         Ran(failing, "ps", PsStatusOf(cs))) ]
    /\ UNCHANGED << envVars, cont, envLeft, imagesPresent, servicesStarting,
                    lastServiceStatus, imageCheckCache, composeFile,
                    composeFileCache, call, query, ops,
                    imageLoadingProgress, loaders, mock >>

----------------------------------------------------------------------------
(* docker-mock.ts: DockerMockService *)

\* the calls that can be in flight together
MockTasks == { "a", "b" }

\* lines 54-150: the dependencies arrays of initializeServices
mockDependencies(s) ==
    CASE s = "metad"    -> {}
      [] s = "storaged" -> { "metad" }
      [] s = "graphd"   -> { "metad", "storaged" }
      [] s = "studio"   -> { "graphd" }

\* lines 328 and 387
startupSequence == << "metad", "storaged", "graphd", "studio" >>
shutdownSequence == << "studio", "graphd", "storaged", "metad" >>

IdleTask == [ pc |-> "idle", name |-> "", idx |-> 0, result |-> "none" ]

\* lines 43-52: the constructor
IdleMock ==
    [ services |-> [ s \in Services |-> "stopped" ],
      isDockerRunning |-> FALSE,
      tasks |-> [ t \in MockTasks |-> IdleTask ] ]

\* lines 337-341 and 462-470: every dependency is there and running
depsRunning(services, s) == \A d \in mockDependencies(s) : services[d] = "running"

\* lines 395-396: the running services that require s
runningDependents(services, s) ==
    { x \in Services : services[x] = "running" /\ s \in mockDependencies(x) }

\* lines 509-510: the services that require s, whatever their status
dependentServices(s) == { x \in Services : s \in mockDependencies(x) }

\* the call of task t returns
Finish(m, t, result) ==
    [ m EXCEPT !.tasks[t] = [ IdleTask EXCEPT !.result = result ] ]

\* the call of task t awaits a timer
Suspend(m, t, pc, name, idx) ==
    [ m EXCEPT !.tasks[t] = [ pc |-> pc, name |-> name, idx |-> idx, result |-> "pending" ] ]

\* lines 330-351: the loop of startServices reaches entry k of the sequence
startServicesFrom(m, t, k) ==
    IF k > Len(startupSequence) THEN Finish(m, t, "success")
    ELSE IF ~depsRunning(m.services, startupSequence[k]) THEN Finish(m, t, "failure")
    ELSE Suspend(m, t, "startServices", "", k)

\* lines 389-405: the loop of stopServices reaches entry k of the sequence
stopServicesFrom(m, t, k) ==
    IF k > Len(shutdownSequence) THEN Finish(m, t, "success")
    ELSE IF runningDependents(m.services, shutdownSequence[k]) # {}
      THEN Finish(m, t, "failure")
    ELSE Suspend(m, t, "stopServices", "", k)

\* lines 450-473: startService up to its await
startServiceEntry(m, t, name) ==
    IF ~m.isDockerRunning THEN Finish(m, t, "failure")
    ELSE IF ~depsRunning(m.services, name) THEN Finish(m, t, "failure")
    ELSE Suspend(m, t, "startService", name, 0)

\* lines 498-519: stopService up to its await, called by itself or by
\* restartService
stopServiceEntry(m, t, name, pc) ==
    IF ~m.isDockerRunning THEN Finish(m, t, "failure")
    ELSE IF dependentServices(name) # {} THEN Finish(m, t, "failure")
    ELSE Suspend(m, t, pc, name, 0)

MockFrame ==
    UNCHANGED << envVars, cont, envLeft, imagesPresent, servicesStarting,
                 lastServiceStatus, imageCheckCache, composeFile,
                 composeFileCache, call, query, probe, verdict, ops,
                 imageLoadingProgress, loaders >>

\* lines 310-315: toggleDocker, at its assignment
MockToggleDocker(start) ==
    /\ rev = "mock"
    /\ mock.isDockerRunning # start
    /\ mock' = [ mock EXCEPT !.isDockerRunning = start ]
    /\ MockFrame

\* lines 317-325: startServices up to its first await
MockStartServices(t) ==
    /\ rev = "mock"
    /\ mock.tasks[t].pc = "idle"
    /\ mock' = IF ~mock.isDockerRunning THEN Finish(mock, t, "failure")
               ELSE Suspend(mock, t, "startServices", "", 0)
    /\ MockFrame

\* lines 379-405: stopServices up to its first await
MockStopServices(t) ==
    /\ rev = "mock"
    /\ mock.tasks[t].pc = "idle"
    /\ mock' = IF ~mock.isDockerRunning THEN Finish(mock, t, "failure")
               ELSE stopServicesFrom(mock, t, 1)
    /\ MockFrame

\* lines 450-473
MockStartService(t, name) ==
    /\ rev = "mock"
    /\ mock.tasks[t].pc = "idle"
    /\ mock' = startServiceEntry(mock, t, name)
    /\ MockFrame

\* lines 498-519
MockStopService(t, name) ==
    /\ rev = "mock"
    /\ mock.tasks[t].pc = "idle"
    /\ mock' = stopServiceEntry(mock, t, name, "stopService")
    /\ MockFrame

\* lines 544-545 with 498-519: restartService calls stopService
MockRestartService(t, name) ==
    /\ rev = "mock"
    /\ mock.tasks[t].pc = "idle"
    /\ mock' = stopServiceEntry(mock, t, name, "restartStop")
    /\ MockFrame

\* the timer a call awaits has fired: the code up to the call's next await
\* or return (lines 325-377, 405-431, 473-496, 519-542, 546-551)
MockResume(t) ==
    /\ rev = "mock"
    /\ LET task == mock.tasks[t]
           set(s, status) == [ mock EXCEPT !.services[s] = status ]
       IN
       /\ task.pc # "idle"
       /\ mock' =
            CASE task.pc = "startServices" ->
                   startServicesFrom(
                     IF task.idx = 0 THEN mock
                     ELSE set(startupSequence[task.idx], "running"),
                     t, task.idx + 1)
              [] task.pc = "stopServices" ->
                   stopServicesFrom(set(shutdownSequence[task.idx], "stopped"),
                                    t, task.idx + 1)
              [] task.pc = "startService" ->
                   Finish(set(task.name, "running"), t, "success")
              [] task.pc = "stopService" ->
                   Finish(set(task.name, "stopped"), t, "success")
              [] task.pc = "restartStop" ->
                   Suspend(set(task.name, "stopped"), t, "restartPause", task.name, 0)
              [] task.pc = "restartPause" ->
                   startServiceEntry(mock, t, task.name)
    /\ MockFrame

NextMock ==
    \/ \E start \in BOOLEAN : MockToggleDocker(start)
    \/ \E t \in MockTasks :
         \/ MockStartServices(t)
         \/ MockStopServices(t)
         \/ MockResume(t)
         \/ \E name \in Services :
              MockStartService(t, name) \/ MockStopService(t, name)
                \/ MockRestartService(t, name)

----------------------------------------------------------------------------
(* The system *)

QuietProcess ==
    /\ imagesPresent = FALSE
    /\ servicesStarting = FALSE
    /\ lastServiceStatus = NoSnapshot
    /\ imageCheckCache = NoImageCache
    /\ composeFile = IF template THEN "valid" ELSE "absent"
    /\ composeFileCache = [ set |-> TRUE, exists |-> template ]
    /\ query = IdleQuery
    /\ probe = NoProbe
    /\ verdict = NoVerdict
    /\ ops = << >>
    /\ imageLoadingProgress = NoProgress
    /\ loaders = [ l \in Loaders |-> IdleLoader ]
    /\ mock = IdleMock

Quiet == cont = [ s \in Services |-> "absent" ] /\ QuietProcess

\* one process, either revision; the renderer asks for the status once and
\* the environment changes the containers MaxEnvSteps times
Init ==
    /\ rev \in { "p8", "ds" }
    /\ docker \in { "absent", "stopped", "nocompose", "ok" }
    /\ platform \in { "darwin", "linux" }
    /\ template \in BOOLEAN
    /\ rev = "p8" => platform = "linux" /\ template
    /\ envLeft = MaxEnvSteps
    /\ call = [ c \in StartCallers |->
                  IF rev = "ds" /\ c # "start" THEN UnusedCall ELSE IdleCall ]
    /\ Quiet

NextStartP8 ==
    \E c \in StartCallers :
      P8Enter(c) \/ P8Check(c) \/ P8Images(c) \/ P8Up(c)
        \/ P8Poll(c) \/ P8PollCommit(c) \/ P8Final(c)

NextP8 ==
    \/ NextStartP8
    \/ P8QueryBegin
    \/ P8QueryCommit

NextDS == \E c \in StartCallers : DSEnter(c) \/ DSInit(c) \/ DSCheck(c) \/ DSUp(c) \/ DSWait(c)

NextQueryDS == DSQueryBegin \/ DSQueryCommit

NextEnv == \E s \in Services : HealthCheckFires(s) \/ ContainerExits(s)

Next == NextP8 \/ NextDS \/ NextQueryDS \/ NextEnv

Spec == Init /\ [][Next]_vars

\* docker-service.ts with both IPC callers, the containers left to compose
InitOverlap ==
    /\ rev = "ds"
    /\ docker \in { "absent", "stopped", "nocompose", "ok" }
    /\ platform \in { "darwin", "linux" }
    /\ template \in BOOLEAN
    /\ envLeft = 0
    /\ call = [ c \in StartCallers |-> IdleCall ]
    /\ Quiet

SpecOverlap == InitOverlap /\ [][NextDS]_vars

\* containers a previous session of the application left behind
Leftovers ==
    { [ s \in Services |-> "absent" ],
      [ s \in Services |-> "healthy" ],
      [ s \in Services |-> "exited" ] }

\* docker-service.ts answering the renderer's status polls, no start running
InitStatus ==
    /\ rev = "ds"
    /\ docker \in { "absent", "stopped", "nocompose", "ok" }
    /\ platform = "linux"
    /\ template \in BOOLEAN
    /\ envLeft = MaxEnvSteps
    /\ call = [ c \in StartCallers |-> UnusedCall ]
    /\ cont \in Leftovers
    /\ QuietProcess

NextStatus == NextQueryDS \/ DSQueryAgain \/ ComposeFileRemoved \/ NextEnv

SpecStatus == InitStatus /\ [][NextStatus]_vars

\* docker-service.ts serving the renderer's other requests beside one start
InitOps ==
    /\ rev \in { "p8", "ds" }
    /\ docker \in { "absent", "stopped", "nocompose", "ok" }
    /\ platform = "linux"
    /\ template \in BOOLEAN
    /\ rev = "p8" => template
    /\ envLeft = 0
    /\ call = [ c \in StartCallers |-> IF c = "start" THEN IdleCall ELSE UnusedCall ]
    /\ cont \in Leftovers
    /\ QuietProcess

SpecOps == InitOps /\ [][NextP8 \/ NextDS \/ NextOps]_vars

\* part_008 serving the renderer's stop, cleanup and per-service requests
\* beside one start
InitOpsP8 ==
    /\ rev = "p8"
    /\ docker \in { "stopped", "ok" }
    /\ platform = "linux"
    /\ template = TRUE
    /\ envLeft = 0
    /\ call = [ c \in StartCallers |-> IF c = "start" THEN IdleCall ELSE UnusedCall ]
    /\ Quiet

SpecOpsP8 == InitOpsP8 /\ [][NextStartP8 \/ NextOpsP8]_vars

\* docker-service.ts with two overlapping ensureImagesLoaded calls
InitLoad ==
    /\ rev = "ds"
    /\ docker \in { "absent", "stopped", "nocompose", "ok" }
    /\ platform = "linux" /\ template = TRUE /\ envLeft = 0
    /\ call = [ c \in StartCallers |-> UnusedCall ]
    /\ Quiet

SpecLoad == InitLoad /\ [][NextLoad]_vars

\* the queries that read no state of the service: checkDockerSystem on every
\* combination of command outcomes, getServiceLogs on every name
InitChecker ==
    /\ rev = "checker" /\ docker = "ok" /\ platform = "linux" /\ template = TRUE
    /\ envLeft = 0
    /\ call = [ c \in StartCallers |-> UnusedCall ]
    /\ Quiet

SpecChecker == InitChecker /\ [][CheckSystem \/ GetServiceLogs]_vars

\* the three health resolvers on every container state and command failure
InitResolvers ==
    /\ rev = "resolvers"
    /\ docker = "ok"
    /\ platform = "linux"
    /\ template = TRUE
    /\ envLeft = 0
    /\ call = [ c \in StartCallers |-> UnusedCall ]
    /\ Quiet

SpecResolvers == InitResolvers /\ [][Resolve]_vars

\* the mock supervisor serving two calls at a time
InitMock ==
    /\ rev = "mock"
    /\ docker = "ok"
    /\ platform = "linux"
    /\ template = TRUE
    /\ envLeft = 0
    /\ call = [ c \in StartCallers |-> UnusedCall ]
    /\ Quiet

SpecMock == InitMock /\ [][NextMock]_vars

----------------------------------------------------------------------------
(* Properties *)

\* the startServices invocations that are between the assignment of
\* servicesStarting and its clearing
Starters == { c \in StartCallers : InSection(call[c]) }

AllGood(snap) ==
    /\ Keys(snap) = Services
    /\ \A s \in Services :
         snap[s].status = "running" /\ snap[s].health = "healthy"
           /\ snap[s].metrics # "null"

\* C1: in part_008 a startServices call that finds servicesStarting set
\* returns the failure 'Services are already starting' at once, having issued
\* no external command, and at most one call is between setting and clearing
\* the flag.
C1_RejectedWhileStarting ==
    rev = "p8" =>
      /\ \A c \in StartCallers :
           call[c].sawFlag =>
             /\ call[c].pc = "done"
             /\ call[c].result = Failure("Services are already starting", {})
             /\ call[c].cmds = {}
      /\ Cardinality(Starters) <= 1

\* C1 witness: a call has been rejected while the other call holds the flag
C1_Witness ==
    /\ rev = "p8"
    /\ \E c \in StartCallers :
         /\ call[c].sawFlag /\ call[c].pc = "done"
         /\ \E o \in StartCallers \ { c } : InSection(call[o]) /\ call[o].upDone

\* C2: in part_008 servicesStarting is true only while a call that set it
\* has not returned; every return path of such a call leaves the flag false.
C2_FlagClearedOnReturn ==
    rev = "p8" => (servicesStarting => Starters # {})

\* C3: in docker-service.ts two startServices calls are never in flight
\* together past the entry: a second overlapping call issues no
\* docker compose up.
C3_StartExclusive ==
    rev = "ds" =>
      Cardinality({ c \in StartCallers :
                      InFlight(call[c]) /\ "compose up" \in call[c].cmds }) <= 1

\* C4: in part_008 a call returns success only if the four containers were
\* all running and healthy at the status poll the result rests on.
C4_SuccessOnLivePoll ==
    rev = "p8" =>
      \A c \in StartCallers :
        call[c].pc = "done" /\ call[c].result.success => call[c].basis = "live"

\* C5: in docker-service.ts a call returns success only if the wait of each
\* of the four services ended on a healthy resolution.
C5_SuccessOnlyIfResolvedHealthy ==
    rev = "ds" =>
      \A c \in StartCallers :
        call[c].pc = "done" /\ call[c].result.success => call[c].resolved = Services

\* C6: in part_008, when storaged was never running and healthy from compose
\* up to the last status read of the call while metad was so throughout, the
\* call returns a failure that lists storaged and does not list metad.
C6_StoragedReported ==
    rev = "p8" =>
      \A c \in StartCallers :
        ( /\ call[c].pc = "done" /\ call[c].upDone
          /\ "storaged" \in call[c].never /\ "metad" \in call[c].always )
        => /\ ~call[c].result.success
           /\ "storaged" \in call[c].result.failed
           /\ "metad" \notin call[c].result.failed

\* C7: in part_008 a getServicesStatus call made while servicesStarting is
\* true and the cache is non-empty returns the cached snapshot, issues no
\* container command and leaves the cache as it is.
C7_CachedAnswer ==
    [][ ( /\ rev = "p8"
          /\ query.pc = "idle" /\ query'.pc # "idle"
          /\ servicesStarting /\ Keys(lastServiceStatus) # {} )
        => /\ query'.pc = "returned"
           /\ query'.result = lastServiceStatus
           /\ query'.cmds = query.cmds
           /\ lastServiceStatus' = lastServiceStatus ]_vars

\* C7 witness: the query was answered from the cache while the containers
\* are in states the cached snapshot does not show
C7_Witness ==
    /\ rev = "p8"
    /\ query.pc = "returned" /\ query.viaCache
    /\ query.result # SnapshotP8(cont)

\* C8: in both revisions, a call whose compose up succeeded and whose four
\* containers all became healthy before its last status read, none leaving
\* that state, returns success; and a status query begun after such a call
\* returned, the containers healthy ever since and none of its commands
\* failing, reports the four services running, healthy and with metrics.
C8_StableStartSucceeds ==
    /\ \A c \in StartCallers :
         ( /\ call[c].pc = "done" /\ call[c].upDone
           /\ call[c].never = {} /\ ~call[c].left )
         => call[c].result.success
    /\ query.pc = "returned" /\ query.pre /\ query.faults = NoFaults
         => AllGood(query.result)

\* C8 witness: a call succeeded although one service became healthy only
\* after compose up, and the status query that followed has returned
C8_Witness ==
    /\ \E c \in StartCallers :
         /\ call[c].pc = "done" /\ call[c].result.success
         /\ call[c].never = {} /\ ~call[c].left /\ call[c].always # Services
    /\ query.pc = "returned" /\ query.pre /\ query.faults = NoFaults

\* what is left for an invocation to do, as a number
Rank(r) ==
    LET base == Len(serviceConfigs) * (maxAttempts + 1) + 2 * maxRetries IN
    CASE r.pc = "idle"       -> base + 8
      [] r.pc = "init"       -> base + 7
      [] r.pc = "check"      -> base + 6
      [] r.pc = "images"     -> base + 5
      [] r.pc = "up"         -> base + 4
      [] r.pc = "poll"       -> 2 * (maxRetries - r.retries) + 3
      [] r.pc = "pollcommit" -> 2 * (maxRetries - r.retries) + 2
      [] r.pc = "final"      -> 1
      [] r.pc = "wait"       -> (Len(serviceConfigs) - r.idx) * (maxAttempts + 1)
                                  + (maxAttempts - r.attempt) + 1
      [] OTHER               -> 0

Position(r) == << r.pc, r.retries, r.idx, r.attempt, r.probes >>

\* C9: the poll loop of part_008 reads the status at most maxRetries times,
\* waitForHealthCheck of docker-service.ts resolves the health at most
\* maxAttempts + 1 times per service, and every step of a call brings it
\* nearer to its return.
C9_BoundedPolling ==
    /\ [](\A c \in StartCallers :
            /\ call[c].retries <= maxRetries
            /\ call[c].attempt <= maxAttempts
            /\ call[c].idx <= Len(serviceConfigs)
            /\ call[c].probes <= IF rev = "p8" THEN maxRetries ELSE maxAttempts + 1
            /\ Rank(call[c]) >= 0)
    /\ [][ \A c \in StartCallers :
             Position(call'[c]) # Position(call[c])
               => Rank(call'[c]) < Rank(call[c]) ]_vars

\* C9 witness: a call of docker-service.ts spent the whole budget of a
\* service and the final check, a call of part_008 would be at its final
\* evaluation after maxRetries polls
C9_Witness ==
    \E c \in StartCallers :
      \/ rev = "ds" /\ call[c].pc = "done" /\ call[c].probes = maxAttempts + 1
      \/ rev = "p8" /\ call[c].pc = "final" /\ call[c].probes = maxRetries

\* C10: each of the three resolvers answers "starting" for a running
\* container whose native health status is starting, and never "unhealthy",
\* whichever of its commands fail.
C10_StartingNotDemoted ==
    rev = "resolvers" /\ probe.state = "starting" =>
      /\ verdict.p8 # "unhealthy"
      /\ verdict.ds # "unhealthy"
      /\ verdict.checker # "unhealthy"
      /\ probe.failing = {} =>
           verdict.p8 = "starting" /\ verdict.ds = "starting"
             /\ verdict.checker = "starting"

\* C10 witness: a starting container has been resolved with all commands
\* answering
C10_Witness ==
    /\ rev = "resolvers"
    /\ probe.state = "starting" /\ probe.failing = {}
    /\ verdict.p8 = "starting" /\ verdict.ds = "starting"
    /\ verdict.checker = "starting"

\* C11: in docker-service.ts the health resolver answers not_created for a
\* service whose container does not exist, and the entry getServicesStatus
\* builds for it has no metrics.
C11_AbsentIsNotCreated ==
    ( /\ rev = "resolvers" /\ verdict # NoVerdict
      /\ probe.state = "absent" /\ probe.failing = {} ) =>
      /\ verdict.ds = "not_created"
      /\ probe.service \in Services =>
           EvalServiceDS(probe.service, probe.state).metrics = "null"

\* every entry of a snapshot has metrics exactly when its status is running
MetricsIffRunning(snap) ==
    \A s \in Keys(snap) : (snap[s].metrics # "null") <=> (snap[s].status = "running")

\* C12: in both revisions every snapshot that getServicesStatus returns or
\* stores in the cache has, for every service, metrics if and only if the
\* status is running.
C12_MetricsIffRunning ==
    /\ MetricsIffRunning(lastServiceStatus)
    /\ MetricsIffRunning(query.snap)
    /\ MetricsIffRunning(query.result)
    /\ \A c \in StartCallers : MetricsIffRunning(call[c].snap)

\* C12 witness: the query returned a snapshot with a running service and a
\* service that is not running, and the cache holds that snapshot
C12_Witness ==
    /\ query.pc = "returned" /\ lastServiceStatus = query.result
    /\ \E s, u \in Keys(query.result) :
         query.result[s].status = "running" /\ query.result[u].status # "running"

\* C15: in docker-service.ts a call issues docker compose up only when the
\* engine is installed, the daemon runs and compose is available.
C15_UpNeedsCompose ==
    rev = "ds" =>
      \A c \in StartCallers : "compose up" \in call[c].cmds => docker = "ok"

\* C17: in part_008 a call never issues compose up on the strength of a
\* cached image check that recorded a failed provisioning: after such a
\* failure the next call provisions the images again.
C17_FailedCheckNotTrusted ==
    rev = "p8" =>
      \A c \in StartCallers :
        "compose up" \in call[c].cmds => call[c].imageCheck # "cached false"

\* the invocation has polled the health or the status
Polled(r) ==
    \/ r.pc \in { "poll", "pollcommit", "final", "wait" }
    \/ r.probes > 0 \/ r.idx > 0 \/ r.basis # "none"
    \/ "inspect" \in r.cmds

\* C20: in both revisions a call polls the health or the status only after
\* its compose up has completed successfully, and a call whose compose up
\* failed returns a failure without having polled.
C20_UpBeforePolling ==
    \A c \in StartCallers :
      /\ Polled(call[c]) => call[c].upDone
      /\ ( call[c].pc = "done" /\ "compose up" \in call[c].cmds /\ ~call[c].upDone )
           => ~call[c].result.success /\ ~Polled(call[c])

\* C20 witness: a call has returned the failure of its compose up, having
\* polled nothing
C20_Witness ==
    \E c \in StartCallers :
      /\ call[c].pc = "done" /\ "compose up" \in call[c].cmds
      /\ ~call[c].upDone /\ ~call[c].result.success

\* C13: in docker-service.ts a status query made while the compose file is
\* absent returns the four services as not_created and issues no
\* container-runtime command.
C13_AbsentFileNoCommands ==
    rev = "ds" /\ query.pc = "returned" /\ query.absent =>
      /\ query.result = createNotCreatedServices
      /\ query.cmds = {}

\* C14: in docker-service.ts a status query in which the evaluation of some
\* service threw returns its result and leaves the cache with the value it
\* had before the call.
C14_PartialKeepsCache ==
    rev = "ds" /\ query.pc = "returned" /\ query.errored # {} =>
      lastServiceStatus = query.before

\* the operations of one kind that returned
OpsOf(kind) == { i \in 1..Len(ops) : ops[i].kind = kind }

\* C16: in docker-service.ts with the engine not installed, getSystemStatus
\* returns isInstalled = false and isRunning = false, and startServices,
\* stopServices, cleanupServices, startService, stopService and
\* restartService each return success = false having issued no compose or
\* container command.
C16_NoEngineNoCommands ==
    rev = "ds" /\ docker = "absent" =>
      /\ \A i \in OpsOf("getSystemStatus") :
           ~ops[i].isInstalled /\ ~ops[i].isRunning
      /\ \A i \in 1..Len(ops) :
           ops[i].kind \in ComposeOps =>
             ~ops[i].success /\ ops[i].cmds \subseteq EngineProbes
      /\ \A c \in StartCallers :
           /\ call[c].cmds \subseteq EngineProbes
           /\ call[c].pc = "done" => ~call[c].result.success

\* C16 witness: without an engine a startServices call, a stopServices call
\* that got as far as the engine probe and a per-service call have returned
C16_Witness ==
    /\ rev = "ds" /\ docker = "absent"
    /\ call["start"].pc = "done"
    /\ \E i \in OpsOf("stopServices") : ops[i].cmds = { "docker --version" }
    /\ \E i \in 1..Len(ops) : ops[i].kind \in PerService /\ ops[i].name \in Services

\* C18: DockerService.ensureImagesLoaded returns true only if every required
\* image is present after the call.
C18_TrueOnlyIfLoaded ==
    rev = "ds" =>
      \A i \in OpsOf("DockerService.ensureImagesLoaded") :
        ops[i].success => ops[i].present

\* C19: a DockerChecker.ensureImagesLoaded call right after one that
\* returned true returns true and runs no docker load.
C19_SecondCallLoadsNothing ==
    rev = "ds" =>
      \A i \in 1..(Len(ops) - 1) :
        /\ ops[i].kind = "DockerChecker.ensureImagesLoaded"
        /\ ops[i + 1].kind = "DockerChecker.ensureImagesLoaded"
        /\ ops[i].success
        => ops[i + 1].success /\ ops[i + 1].loads = 0

\* C19 witness: the first call loaded the images and returned true, the
\* next operation is a second call
C19_Witness ==
    /\ rev = "ds"
    /\ Len(ops) = 2
    /\ ops[1].kind = "DockerChecker.ensureImagesLoaded"
    /\ ops[2].kind = "DockerChecker.ensureImagesLoaded"
    /\ ops[1].success /\ ops[1].loads = Len(manifest)
    /\ ops[2].success

\* C21: in both revisions startServices, stopServices and cleanupServices
\* never reject: whatever command or file operation fails inside them, the
\* call resolves to a value { success, error }.
C21_NeverRejects ==
    /\ \A c \in StartCallers :
         /\ call[c].pc # "rejected"
         /\ call[c].pc = "done" =>
              call[c].result.success \/ call[c].result.error # "<pending>"
    /\ \A i \in 1..Len(ops) : ops[i].kind \in WholeStack => ~ops[i].rejected

\* C21 witness: the compose up of a startServices call has failed and the
\* call has returned, and so has a stopServices or cleanupServices call
\* whose compose command failed
C21_Witness ==
    /\ \E c \in StartCallers :
         call[c].pc = "done" /\ call[c].result = Failure("Command failed", {})
    /\ \E i \in OpsOf("stopServices") \cup OpsOf("cleanupServices") :
         ~ops[i].success /\ ComposeCommand(ops[i].kind) \in ops[i].cmds

\* C22: checkDockerSystem of either revision, on every combination of
\* command outcomes: a failing version command gives isInstalled = false and
\* isRunning = false; version succeeding and info failing gives isInstalled =
\* true and isRunning = false; both succeeding and both compose commands
\* failing gives isInstalled = true, isRunning = true, compose.isInstalled =
\* false and an error string; otherwise compose.isInstalled is true.  The
\* legacy compose command runs only after the plugin command failed.
C22_DecisionProcedure ==
    \A i \in OpsOf("checkDockerSystem") :
      LET run == ops[i].run
          s   == ops[i].status
          at(cmd) == { k \in 1..Len(s.cmds) : s.cmds[k] = cmd }
      IN /\ ~run.version => ~s.isInstalled /\ ~s.isRunning
         /\ run.version /\ ~run.info => s.isInstalled /\ ~s.isRunning
         /\ run.version /\ run.info /\ ~run.compose /\ ~run.legacy =>
              s.isInstalled /\ s.isRunning /\ s.compose = "missing" /\ s.error
         /\ run.version /\ run.info /\ (run.compose \/ run.legacy) =>
              s.isInstalled /\ s.isRunning /\ s.compose = "installed"
         /\ at("docker-compose --version") # {} =>
              /\ ~run.compose
              /\ \E k \in at("docker compose version") :
                   \A l \in at("docker-compose --version") : k < l

\* C22 witness: one revision found no compose command, the other fell back
\* to the legacy command
C22_Witness ==
    /\ Len(ops) = 2
    /\ ops[1].kind = "checkDockerSystem" /\ ops[2].kind = "checkDockerSystem"
    /\ ops[1].old /\ ~ops[2].old
    /\ ops[1].status.compose = "missing"
    /\ ops[2].status.compose = "installed" /\ ~ops[2].run.compose

\* C23: getServiceLogs called with a service's display name in any letter
\* case resolves to that service and issues the logs command that
\* getServiceLogs called with the service's key issues.
C23_LogsByDisplayName ==
    \A i, j \in OpsOf("getServiceLogs") :
      \A s \in Services :
        /\ toLowerCase(ops[i].name) = toLowerCase(displayName(s))
        /\ ops[j].name = s
        => /\ ops[i].service = s
           /\ ops[i].cmds = ops[j].cmds
           /\ ops[j].cmds # << >>

\* C23 witness: the logs of graphd were asked for by the display name in
\* another letter case and by the key
C23_Witness ==
    /\ Len(ops) = 2
    /\ ops[1].kind = "getServiceLogs" /\ ops[1].name = "gRAPH sERVICE"
    /\ ops[2].kind = "getServiceLogs" /\ ops[2].name = "graphd"

AllStopped(c) == \A s \in Services : ~IsUp(c[s])

C25_HealthyPollReturns ==
    rev = "p8" =>
      \A c \in StartCallers :
        call[c].pc = "poll" /\ call[c].probes > 0 => call[c].basis # "live"

\* C26: in part_008, while servicesStarting is set and the status cache is
\* not empty the cache does not change: a status query that completes then,
\* whenever it began, leaves in the cache the snapshot that was there.
C26_CacheFrozenWhileStarting ==
    rev = "p8" /\ query.pc = "returned" /\ Keys(query.replaced) # {} =>
      query.result = query.replaced

\* C27: in docker-service.ts imageLoadingProgress is non-null exactly while
\* some ensureImagesLoaded call is in its loading phase (between setting the
\* progress at line 133 and clearing it at line 143), two overlapping calls
\* included.
C27_ProgressWhileLoading ==
    rev = "ds" =>
      (~imageLoadingProgress.null <=> \E l \in Loaders : loaders[l].pc = "loading")

\* C28: in docker-service.ts getServicesStatus, with the engine running and
\* its commands succeeding, reports a service as not_created only if no
\* container of the service exists.
C28_NotCreatedMeansAbsent ==
    /\ rev = "ds" /\ docker = "ok"
    /\ query.pc = "returned" /\ "inspect" \in query.cmds /\ query.errored = {}
    => \A s \in Keys(query.result) :
         query.result[s].status = "not_created" => cont[s] = "absent"

\* C29: in docker-service.ts, once the status cache holds an entry for each
\* of the four services it does so in every later state: a query that began
\* with a complete cache never leaves the cache without an entry.
C29_CacheStaysComplete ==
    /\ rev = "ds"
    /\ query.pc \in { "reading", "returned" }
    /\ Keys(query.before) = Services
    => Keys(lastServiceStatus) = Services

\* C30: in the health resolver of part_008 the HTTP probe can only promote
\* a result to healthy: whatever the probe returns, the resolver answers
\* unhealthy only when the native health status of the container is
\* unhealthy.
C30_ProbeOnlyPromotes ==
    rev = "resolvers" /\ verdict # NoVerdict /\ verdict.p8 = "unhealthy" =>
      probe.state = "unhealthy"

\* C31: the health resolver of docker-service.ts, when none of its commands
\* fails, answers healthy for storage-activator and starting for every other
\* name on a running container without a native health status, and unknown
\* on a container that exists but is not running; with or without failing
\* commands, a running container without a native status is never answered
\* unhealthy.
C31_AbsentStatusNotUnhealthy ==
    rev = "resolvers" /\ verdict # NoVerdict =>
      /\ probe.state = "nohealth" /\ probe.failing \cap { "inspect", "health" } = {} =>
           verdict.ds = IF probe.service = "storage-activator"
                          THEN "healthy" ELSE "starting"
      /\ probe.state = "exited" /\ ~ ("inspect" \in probe.failing) =>
           verdict.ds = "unknown"
      /\ probe.state = "nohealth" => verdict.ds # "unhealthy"

\* C31 witness: the activator's running container without a native health
\* status has been resolved to healthy, no command failing.
C31_Witness ==
    /\ rev = "resolvers" /\ verdict # NoVerdict
    /\ probe.service = "storage-activator" /\ probe.state = "nohealth"
    /\ probe.failing = {}
    /\ verdict.ds = "healthy"

\* the services a startServices() invocation of docker-service.ts has probed
\* so far in its health-waiting phase
Probed(r) ==
    { serviceConfigs[i] : i \in 1..(r.idx - 1) }
      \cup (IF r.probes > 0 THEN { serviceConfigs[r.idx] } ELSE {})

\* C32: in the health-waiting phase of startServices() of docker-service.ts
\* every polling round probes all four services: once an invocation has
\* finished a probe and is still waiting, each of the four services has
\* been probed, whether or not the services before it are healthy.
C32_RoundProbesAll ==
    \A c \in StartCallers :
      rev = "ds" /\ call[c].pc = "wait" /\ call[c].probes >= 1 =>
        Probed(call[c]) = Services

\* C33: in the snapshots of getServicesStatus() of docker-service.ts the
\* failureCount of a service counts the consecutive evaluations that
\* resolved it to unhealthy: it is 0 when the service is not unhealthy, at
\* least 1 when it is, and at least 2 when the evaluation before this one
\* (the snapshot the cache held when this call began) was unhealthy too.
C33_FailureCountConsecutive ==
    rev = "ds" /\ query.pc = "returned" /\ Keys(query.result) = Services =>
      \A s \in Services :
        LET now == query.result[s] IN
        /\ now.health # "unhealthy" => now.failureCount = 0
        /\ now.health = "unhealthy" => now.failureCount >= 1
        /\ now.health = "unhealthy" /\ Keys(query.before) = Services
             /\ query.before[s].health = "unhealthy" => now.failureCount >= 2

\* C34: every getServicesStatus() call of docker-service.ts returns exactly
\* one entry for each of the four declared services, on every path; and
\* when commands throw during the evaluation of some services, the entry
\* of every other service is the one its own container state gives with
\* all commands answering.
C34_OneEntryPerService ==
    /\ [] ( rev = "ds" /\ query.pc = "returned" => Keys(query.result) = Services )
    /\ [][ rev = "ds" /\ query.pc = "idle" /\ query'.pc = "reading" =>
             /\ Keys(query'.snap) = Services
             /\ query'.faults # NoFaults =>
                  \A s \in Services :
                    query'.faults[s] = {} => query'.snap[s] = EvalServiceDS(s, cont[s])
         ]_vars
    /\ [][ rev = "ds" /\ query.pc = "reading" /\ query'.pc = "returned" =>
             query'.result = query.snap ]_vars

\* C34 witness: a status call has returned in which the health resolution
\* of storaged threw: storaged is reported running with health unknown,
\* metad and graphd are reported healthy.
C34_Witness ==
    /\ rev = "ds" /\ query.pc = "returned"
    /\ query.faults["storaged"] = { "health" }
    /\ query.result["storaged"].status = "running"
    /\ query.result["storaged"].health = "unknown"
    /\ query.result["metad"].health = "healthy"
    /\ query.result["graphd"].health = "healthy"

\* C35: startService, stopService and restartService of docker-service.ts,
\* called with a name that is the key of no declared service, return
\* {success: false} without issuing a compose command, the error being
\* 'Service not found' when the compose file could be set up and the engine
\* answers; called with the engine not answering they return
\* {success: false, error: 'Docker is not running'} whatever the name is,
\* again without a compose command.
C35_UnknownServiceRejected ==
    \A i \in DOMAIN ops :
      rev = "ds" /\ ops[i].kind \in PerService =>
        /\ ops[i].name \notin Services =>
             /\ ~ops[i].success
             /\ ComposeCommand(ops[i].kind) \notin ops[i].cmds
             /\ ~ops[i].threw /\ checkDockerStatus(docker) =>
                  ops[i].error = "Service not found: <name>"
        /\ ~ops[i].threw /\ ~checkDockerStatus(docker) =>
             /\ ~ops[i].success
             /\ ops[i].error = "Docker is not running"
             /\ ComposeCommand(ops[i].kind) \notin ops[i].cmds

\* C35 witness: with the engine answering, restartService("Studio") (the
\* display name, not the key) returned 'Service not found'.
C35_Witness ==
    \E i \in DOMAIN ops :
      /\ rev = "ds" /\ ops[i].kind = "restartService" /\ ops[i].name = "Studio"
      /\ checkDockerStatus(docker)
      /\ ~ops[i].success /\ ops[i].error = "Service not found: <name>"

\* the operation a step has just appended to ops
Appended(kinds) ==
    /\ Len(ops') = Len(ops) + 1
    /\ ops'[Len(ops')].kind \in kinds

\* C36: startService, stopService, restartService, stopServices and
\* cleanupServices leave servicesStarting, the status cache, the image-check
\* cache and the image-loading progress as they are, whether they succeed
\* or fail; they can run whenever one is requested, also while a start is
\* in flight, and when they fail without an error being thrown it is for
\* the engine, the name or the command's stderr, not for the start.
C36_OperationsBesideStart ==
    /\ [][ Appended(ComposeOps) =>
             /\ servicesStarting' = servicesStarting
             /\ lastServiceStatus' = lastServiceStatus
             /\ imageCheckCache' = imageCheckCache
             /\ imageLoadingProgress' = imageLoadingProgress
             /\ ~ops'[Len(ops')].rejected
             /\ ~ops'[Len(ops')].success /\ ~ops'[Len(ops')].threw =>
                  ops'[Len(ops')].error \in
                    { "Docker is not running", "Service not found: <name>", "<stderr>" }
         ]_vars
    /\ [] ( Len(ops) < MaxOps /\ rev \in { "p8", "ds" } =>
              \A kind \in ComposeOps :
                \A name \in (IF kind \in PerService THEN OpNames ELSE { "" }) :
                  ENABLED ( ComposeOperation(kind, name) \/ P8ComposeOperation(kind, name) ) )

\* C36 witness: while a start of part_008 was polling, servicesStarting
\* set, stopService("storaged") succeeded and took a healthy container
\* down; the start is still in flight and the flag still set.
C36_Witness ==
    /\ rev = "p8" /\ servicesStarting
    /\ call["start"].pc = "poll" /\ call["start"].left
    /\ \E i \in DOMAIN ops :
         ops[i].kind = "stopService" /\ ops[i].name = "storaged" /\ ops[i].success
    /\ Keys(lastServiceStatus) = Services

\* what loadImages has done once the load of image k has started
ExpectedTrace(k) ==
    [ i \in 1..(2 * k) |->
        IF i % 2 = 1 THEN ProgressEvent((i + 1) \div 2) ELSE LoadEvent(i \div 2) ]

\* C37: DockerChecker.loadImages takes the images in manifest order and
\* calls the progress callback with (i, total, imageName) before it starts
\* the load of the i-th image, i going from 1 to total in steps of one;
\* once a load has failed it starts no further load and returns false,
\* the loads before it having been made; it returns true only after the
\* loads of all images.
C37_LoadsInManifestOrder ==
    \A l \in Loaders :
      LET r == loaders[l] IN
      /\ r.index <= Len(manifest)
      /\ r.trace = ExpectedTrace(r.index)
      /\ r.failedAt > 0 => r.index = r.failedAt /\ r.pc = "done" /\ r.loadImages = "false"
      /\ r.loadImages = "true" => r.index = Len(manifest) /\ r.failedAt = 0

\* C37 witness: a loadImages call returned false after its third load
\* failed, having reported and started the loads of graphd, metad and
\* storaged and nothing else.
C37_Witness ==
    \E l \in Loaders :
      /\ loaders[l].pc = "done" /\ loaders[l].loadImages = "false"
      /\ loaders[l].failedAt = 3
      /\ Len(loaders[l].trace) = 6
      /\ loaders[l].trace[5].imageName = "storaged"

\* C38: every compose command issued by docker-service.ts runs with the
\* directory of the persisted compose file as its working directory.
C38_ComposeRunsInComposeDir ==
    \A i \in DOMAIN ops :
      rev = "ds" /\ ops[i].kind \in ComposeOps
        /\ ComposeCommand(ops[i].kind) \in ops[i].cmds =>
          ops[i].cwd = composeDir

\* C39: in the mock supervisor every service whose status is running has
\* all of its declared dependencies running, in every reachable state of
\* any interleaving of startServices, stopServices, startService,
\* stopService and restartService calls.
C39_RunningHasDependencies ==
    rev = "mock" =>
      \A s \in Services :
        mock.services[s] = "running" => depsRunning(mock.services, s)

====
